---- MODULE Spec2Model ----
(***************************************************************************)
(* Workflow compiler: the graph validator and the code generator, in the   *)
(* two implementations of the repository:                                  *)
(*   standalone  packages/workflow-compiler-rs                             *)
(*   builder     packages/workflow-builder/workflow-compiler-rs            *)
(* A workflow graph is a value; validate and generate are pure functions   *)
(* of it.  The state holds the graph of the request being served (wf) and  *)
(* the value the last operation returned (out).                            *)
(*                                                                         *)
(* Conventions.  Option<T> is a sequence of length 0 (None) or 1 (Some).   *)
(* A Vec is a sequence, a HashSet a set.  A Rust String (an id, a name, a  *)
(* config value) is a sequence of one-character strings, so that slicing,  *)
(* trimming and character replacement are computed; the variants of an     *)
(* enum (node types, error kinds) are TLA+ strings.                        *)
(***************************************************************************)
EXTENDS Integers, Sequences, FiniteSets, TLC

VARIABLES wf, out

vars == <<wf, out>>

(***************************************************************************)
(* Generic helpers                                                         *)
(***************************************************************************)
None == <<>>

Some(x) == <<x>>

IsNone(o) == o = <<>>

IsSome(o) == o # <<>>

Range(s) == {s[i] : i \in 1..Len(s)}

\* s.iter().map(f).collect()
MapSeq(s, f(_)) == [i \in 1..Len(s) |-> f(s[i])]

\* number of elements of s that satisfy p
CountSeq(s, p(_)) == Cardinality({i \in 1..Len(s) : p(s[i])})

\* all sequences over S of length 0..n
SeqsUpTo(S, n) == UNION {[1..k -> S] : k \in 0..n}

\* all orders of the elements of the set S
Perms(S) == {p \in [1..Cardinality(S) -> S] : \A i, j \in 1..Cardinality(S) : i # j => p[i] # p[j]}

(***************************************************************************)
(* Graph model                                                             *)
(***************************************************************************)
\* NodeData::default(): label "" and every optional field None
DefaultData ==
    [label |-> <<>>, component_id |-> None, component_name |-> None,
     activity_name |-> None, signal_name |-> None, workflow_id |-> None,
     condition |-> None, config |-> None, input |-> None,
     timeout |-> None, retry_policy |-> None]

WorkflowNode(id, type, data) == [id |-> id, node_type |-> type, data |-> data]

\* WorkflowEdge::new(id, source, target)
WorkflowEdge(id, source, target) == [id |-> id, source |-> source, target |-> target]

WorkflowDefinition(nodes, edges) ==
    [nodes |-> nodes, edges |-> edges, variables |-> <<>>]

is_trigger(n) == n.node_type = "Trigger"

is_end(n) == n.node_type = "End"

NodeIdsOf(g) == {g.nodes[i].id : i \in 1..Len(g.nodes)}

\* the adjacency list both validators build: for a source id, the targets of
\* its edges in edge order (adj.entry(source).or_default().push(target))
Adj(g, id) ==
    LET es == SelectSeq(g.edges, LAMBDA e : e.source = id)
    IN  [i \in 1..Len(es) |-> es[i].target]

(***************************************************************************)
(* Validation errors and warnings (both implementations)                   *)
(***************************************************************************)
\* an error or a warning: its kind, the ids or names it carries (Strings) and
\* a fixed text of the variant (the field name of MissingRequiredField)
ErrD(kind, ids, detail) == [kind |-> kind, ids |-> ids, detail |-> detail]

Err(kind, ids) == ErrD(kind, ids, "")

HasKind(errors, kind) == \E i \in 1..Len(errors) : errors[i].kind = kind

OfKind(errors, kind) == SelectSeq(errors, LAMBDA e : e.kind = kind)

\* the ids that occur a second or later time, once per such occurrence
\* (HashSet::insert returning false)
RepeatedIds(ids) ==
    LET F[i \in 0..Len(ids)] ==
            IF i = 0 THEN <<>>
            ELSE IF \E j \in 1..(i - 1) : ids[j] = ids[i]
                 THEN Append(F[i - 1], ids[i])
                 ELSE F[i - 1]
    IN  F[Len(ids)]

(***************************************************************************)
(* Standalone validator: validation/graph.rs, validation/mod.rs            *)
(***************************************************************************)
\* str::trim on a character sequence
RECURSIVE TrimStart(_)
TrimStart(s) == IF s # <<>> /\ Head(s) = " " THEN TrimStart(Tail(s)) ELSE s

RECURSIVE TrimEnd(_)
TrimEnd(s) ==
    IF s # <<>> /\ s[Len(s)] = " " THEN TrimEnd(SubSeq(s, 1, Len(s) - 1)) ELSE s

Trim(s) == TrimEnd(TrimStart(s))

starts_with(s, p) == Len(s) >= Len(p) /\ SubSeq(s, 1, Len(p)) = p

ends_with(s, p) == Len(s) >= Len(p) /\ SubSeq(s, Len(s) - Len(p) + 1, Len(s)) = p

\* A JSON value: [t |-> "string", s |-> characters] or a value of another type.
JsonString(s) == [t |-> "string", s |-> s]

\* a variant of extract_variable_reference that does not look at the end of
\* the string before it slices
extract_variable_reference_NoEndCheck(value) ==
    IF value.t = "string" /\ starts_with(value.s, <<"{", "{">>)
    THEN IF 2 > Len(value.s) - 2
         THEN [panic |-> TRUE, ref |-> None]
         ELSE [panic |-> FALSE, ref |-> Some(Trim(SubSeq(value.s, 3, Len(value.s) - 2)))]
    ELSE [panic |-> FALSE, ref |-> None]

\* extract_variable_reference: Some(trimmed inside) of a string "{{...}}".
\* The slice s[2..s.len() - 2] panics when its start is beyond its end.
extract_variable_reference(value) ==
    IF value.t = "string"
       /\ starts_with(value.s, <<"{", "{">>) /\ ends_with(value.s, <<"}", "}">>)
    THEN IF 2 > Len(value.s) - 2
         THEN [panic |-> TRUE, ref |-> None]
         ELSE [panic |-> FALSE, ref |-> Some(Trim(SubSeq(value.s, 3, Len(value.s) - 2)))]
    ELSE [panic |-> FALSE, ref |-> None]

\* check_reachability: the stack loop, returning the reachable set
RECURSIVE ReachLoopS(_, _, _)
ReachLoopS(g, stack, reachable) ==
    IF stack = <<>> THEN reachable
    ELSE LET node_id == stack[Len(stack)]
             rest    == SubSeq(stack, 1, Len(stack) - 1)
         IN  IF node_id \in reachable
             THEN ReachLoopS(g, rest, reachable)
             ELSE LET r2 == reachable \cup {node_id}
                  IN  ReachLoopS(g,
                                 rest \o SelectSeq(Adj(g, node_id), LAMBDA n : n \notin r2),
                                 r2)

\* check_reachability: the errors it pushes
check_reachability(g, start_id, errors) ==
    LET reachable   == ReachLoopS(g, <<start_id>>, {})
        unreachable == MapSeq(SelectSeq(g.nodes, LAMBDA n : n.id \notin reachable),
                              LAMBDA n : n.id)
    IN  IF unreachable # <<>>
        THEN Append(errors, Err("UnreachableNodes", unreachable))
        ELSE errors

\* check_cycles: the inner fn dfs.  st = [visited, rec_stack, cycle_nodes, found];
\* found is the bool that dfs returns.
RECURSIVE DfsS(_, _, _), DfsNeighborsS(_, _, _, _)
DfsS(g, node, st) ==
    LET st1 == [st EXCEPT !.visited = @ \cup {node}, !.rec_stack = @ \cup {node}]
        st2 == DfsNeighborsS(g, node, Adj(g, node), st1)
    IN  IF st2.found THEN st2 ELSE [st2 EXCEPT !.rec_stack = @ \ {node}]

DfsNeighborsS(g, node, neighbors, st) ==
    IF neighbors = <<>> THEN st
    ELSE LET neighbor == Head(neighbors)
         IN  IF neighbor \notin st.visited
             THEN LET r == DfsS(g, neighbor, st)
                  IN  IF r.found
                      THEN [r EXCEPT !.cycle_nodes = Append(@, node)]
                      ELSE DfsNeighborsS(g, node, Tail(neighbors), r)
             ELSE IF neighbor \in st.rec_stack
                  THEN [st EXCEPT !.cycle_nodes = @ \o <<neighbor, node>>,
                                  !.found = TRUE]
                  ELSE DfsNeighborsS(g, node, Tail(neighbors), st)

\* check_cycles: the loop over the nodes, from node index i on
RECURSIVE CycleLoopS(_, _, _)
CycleLoopS(g, i, st) ==
    IF i > Len(g.nodes) THEN st
    ELSE IF g.nodes[i].id \notin st.visited
         THEN LET r == DfsS(g, g.nodes[i].id, st)
              IN  IF r.found THEN r ELSE CycleLoopS(g, i + 1, r)
         ELSE CycleLoopS(g, i + 1, st)

\* a variant of check_cycles that never reports a cycle
check_cycles_Off(g, errors) == errors

check_cycles(g, errors) ==
    LET r == CycleLoopS(g, 1, [visited |-> {}, rec_stack |-> {},
                               cycle_nodes |-> <<>>, found |-> FALSE])
    IN  IF r.found THEN Append(errors, Err("CycleDetected", r.cycle_nodes)) ELSE errors

\* a variant of StartErrorsS that reports several triggers only from three on
StartErrorsS_FromThree(trigger_nodes) ==
    IF trigger_nodes = <<>> THEN <<Err("NoStartNode", <<>>)>>
    ELSE IF Len(trigger_nodes) > 2
         THEN <<Err("MultipleStartNodes", MapSeq(trigger_nodes, LAMBDA n : n.id))>>
         ELSE <<>>

\* validate_graph_structure: the error for the number of trigger nodes
StartErrorsS(trigger_nodes) ==
    IF trigger_nodes = <<>> THEN <<Err("NoStartNode", <<>>)>>
    ELSE IF Len(trigger_nodes) > 1
         THEN <<Err("MultipleStartNodes", MapSeq(trigger_nodes, LAMBDA n : n.id))>>
         ELSE <<>>

validate_graph_structure(g, errors) ==
    IF g.nodes = <<>> THEN Append(errors, Err("EmptyWorkflow", <<>>))
    ELSE
    LET dupNodes == MapSeq(RepeatedIds(MapSeq(g.nodes, LAMBDA n : n.id)),
                           LAMBDA id : Err("DuplicateNodeId", <<id>>))
        dupEdges == MapSeq(RepeatedIds(MapSeq(g.edges, LAMBDA e : e.id)),
                           LAMBDA id : Err("DuplicateEdgeId", <<id>>))
        trigger_nodes == SelectSeq(g.nodes, is_trigger)
        start == StartErrorsS(trigger_nodes)
        end_nodes == SelectSeq(g.nodes, is_end)
        noEnd == IF end_nodes = <<>> THEN <<Err("NoEndNode", <<>>)>> ELSE <<>>
        e1 == errors \o dupNodes \o dupEdges \o start \o noEnd
        e2 == IF trigger_nodes # <<>> /\ e1 = <<>>
              THEN check_reachability(g, trigger_nodes[1].id, e1)
              ELSE e1
    IN  check_cycles(g, e2)

\* validate_nodes: what one node contributes, [errors, warnings, panic]
ValidateNodeS(g, node) ==
    LET t == node.node_type
        d == node.data
        errs ==
            IF t = "Signal" /\ IsNone(d.signal_name)
            THEN <<ErrD("MissingRequiredField", <<node.id>>, "signalName")>>
            ELSE IF t = "ChildWorkflow" /\ IsNone(d.workflow_id)
            THEN <<ErrD("MissingRequiredField", <<node.id>>, "workflowId")>>
            ELSE <<>>
        fieldWarn ==
            IF t = "Activity" /\ IsNone(d.component_id) /\ IsNone(d.activity_name)
            THEN <<ErrD("MissingOptionalField", <<node.id>>, "componentId or activityName")>>
            ELSE IF t \in {"Conditional", "Condition"} /\ IsNone(d.condition)
            THEN <<ErrD("MissingOptionalField", <<node.id>>, "condition")>>
            ELSE <<>>
        deadEnd ==
            IF t # "End" /\ ~(\E i \in 1..Len(g.edges) : g.edges[i].source = node.id)
            THEN <<Err("DeadEnd", <<node.id>>)>>
            ELSE <<>>
        entries == IF IsSome(d.config) THEN d.config[1] ELSE <<>>
        refs == [i \in 1..Len(entries) |-> extract_variable_reference(entries[i].value)]
        Suggest(i) ==
            IF IsSome(refs[i].ref)
               /\ ~(\E j \in 1..Len(g.variables) : g.variables[j].name = refs[i].ref[1])
               /\ refs[i].ref[1] \notin NodeIdsOf(g)
            THEN <<Err("ConfigSuggestion", <<node.id, entries[i].key, refs[i].ref[1]>>)>>
            ELSE <<>>
        F[i \in 0..Len(entries)] == IF i = 0 THEN <<>> ELSE F[i - 1] \o Suggest(i)
    IN  [errors |-> errs,
         warnings |-> fieldWarn \o deadEnd \o F[Len(entries)],
         panic |-> \E i \in 1..Len(entries) : refs[i].panic]

\* validate_nodes: the loop over the nodes
validate_nodes(g, r) ==
    LET F[i \in 0..Len(g.nodes)] ==
            IF i = 0 THEN r
            ELSE LET c == ValidateNodeS(g, g.nodes[i])
                 IN  [errors |-> F[i - 1].errors \o c.errors,
                      warnings |-> F[i - 1].warnings \o c.warnings,
                      panic |-> F[i - 1].panic \/ c.panic]
    IN  F[Len(g.nodes)]

\* a variant of validate_edges that reports each missing endpoint id once
validate_edges_Dedup(g, errors) ==
    LET Push(es, e) == IF \E k \in 1..Len(es) : es[k] = e THEN es ELSE Append(es, e)
        F[i \in 0..Len(g.edges)] ==
            IF i = 0 THEN errors
            ELSE LET a == IF g.edges[i].source \notin NodeIdsOf(g)
                          THEN Push(F[i - 1], Err("InvalidEdgeSource", <<g.edges[i].source>>))
                          ELSE F[i - 1]
                 IN  IF g.edges[i].target \notin NodeIdsOf(g)
                     THEN Push(a, Err("InvalidEdgeTarget", <<g.edges[i].target>>))
                     ELSE a
    IN  F[Len(g.edges)]

\* validate_edges: what it appends to errors
validate_edges(g, errors) ==
    LET F[i \in 0..Len(g.edges)] ==
            IF i = 0 THEN errors
            ELSE F[i - 1]
                 \o (IF g.edges[i].source \notin NodeIdsOf(g)
                     THEN <<Err("InvalidEdgeSource", <<g.edges[i].source>>)>> ELSE <<>>)
                 \o (IF g.edges[i].target \notin NodeIdsOf(g)
                     THEN <<Err("InvalidEdgeTarget", <<g.edges[i].target>>)>> ELSE <<>>)
    IN  F[Len(g.edges)]

\* validation::validate of the standalone compiler.  panic: the call did not
\* return (the result fields are then not observed).
validateS(g) ==
    LET e1 == validate_graph_structure(g, <<>>)
        r2 == validate_nodes(g, [errors |-> e1, warnings |-> <<>>, panic |-> FALSE])
        e3 == validate_edges(g, r2.errors)
    IN  [valid |-> e3 = <<>>, errors |-> e3, warnings |-> r2.warnings,
         panic |-> r2.panic]

(***************************************************************************)
(* ValidationResult of the standalone compiler: validation/errors.rs       *)
(***************************************************************************)
success == [valid |-> TRUE, errors |-> <<>>, warnings |-> <<>>]

failure(error) == [valid |-> FALSE, errors |-> <<error>>, warnings |-> <<>>]

\* a variant of add_errorS that leaves the valid flag as it was
add_errorS_KeepsValid(r, error) == [r EXCEPT !.errors = Append(@, error)]

add_errorS(r, error) == [r EXCEPT !.errors = Append(@, error), !.valid = FALSE]

add_warningS(r, warning) == [r EXCEPT !.warnings = Append(@, warning)]

(***************************************************************************)
(* ValidationResult of the builder compiler: validation/errors.rs          *)
(***************************************************************************)
new == [errors |-> <<>>, warnings |-> <<>>]

is_valid(r) == r.errors = <<>>

add_errorB(r, error) == [r EXCEPT !.errors = Append(@, error)]

add_warningB(r, warning) == [r EXCEPT !.warnings = Append(@, warning)]

merge(r, other) ==
    [r EXCEPT !.errors = @ \o other.errors, !.warnings = @ \o other.warnings]

with_error(error) == [errors |-> <<error>>, warnings |-> <<>>]

(***************************************************************************)
(* Builder validator: validation/graph.rs                                  *)
(***************************************************************************)
get_connected_nodes(g) ==
    {g.edges[i].source : i \in 1..Len(g.edges)} \cup {g.edges[i].target : i \in 1..Len(g.edges)}

\* get_reachable_nodes: the queue loop
RECURSIVE ReachLoopB(_, _, _)
ReachLoopB(g, queue, reachable) ==
    IF queue = <<>> THEN reachable
    ELSE LET neighbors == Adj(g, Head(queue))
             \* the neighbours inserted by the inner loop, each once, in order
             F[i \in 0..Len(neighbors)] ==
                 IF i = 0 THEN <<>>
                 ELSE IF neighbors[i] \in reachable \cup Range(F[i - 1])
                      THEN F[i - 1]
                      ELSE Append(F[i - 1], neighbors[i])
             added == F[Len(neighbors)]
         IN  ReachLoopB(g, Tail(queue) \o added, reachable \cup Range(added))

get_reachable_nodes(g, start_id) == ReachLoopB(g, <<start_id>>, {start_id})

\* path.iter().position(|n| n == x): the first index, 0 for None
Position(path, x) ==
    IF \E i \in 1..Len(path) : path[i] = x
    THEN CHOOSE i \in 1..Len(path) : path[i] = x /\ \A j \in 1..(i - 1) : path[j] # x
    ELSE 0

\* dfs_cycle_detect.  st = [visited, rec_stack, path, cycle, panic]; cycle is
\* the Option the function returns, panic the failed unwrap of position.
RECURSIVE DfsB(_, _, _), DfsNeighborsB(_, _, _, _)
DfsB(g, node, st) ==
    LET st1 == [st EXCEPT !.visited = @ \cup {node}, !.rec_stack = @ \cup {node},
                          !.path = Append(@, node)]
        st2 == DfsNeighborsB(g, node, Adj(g, node), st1)
    IN  IF IsSome(st2.cycle) \/ st2.panic THEN st2
        ELSE [st2 EXCEPT !.path = SubSeq(@, 1, Len(@) - 1), !.rec_stack = @ \ {node}]

DfsNeighborsB(g, node, neighbors, st) ==
    IF neighbors = <<>> THEN st
    ELSE LET neighbor == Head(neighbors)
         IN  IF neighbor \notin st.visited
             THEN LET r == DfsB(g, neighbor, st)
                  IN  IF IsSome(r.cycle) \/ r.panic THEN r
                      ELSE DfsNeighborsB(g, node, Tail(neighbors), r)
             ELSE IF neighbor \in st.rec_stack
                  THEN LET cycle_start == Position(st.path, neighbor)
                       IN  IF cycle_start = 0
                           THEN [st EXCEPT !.panic = TRUE]
                           ELSE [st EXCEPT !.cycle =
                                    Some(SubSeq(st.path, cycle_start, Len(st.path)))]
                  ELSE DfsNeighborsB(g, node, Tail(neighbors), st)

\* detect_cycle: the loop over the nodes, from node index i on
RECURSIVE CycleLoopB(_, _, _)
CycleLoopB(g, i, st) ==
    IF i > Len(g.nodes) THEN st
    ELSE IF g.nodes[i].id \notin st.visited
         THEN LET r == DfsB(g, g.nodes[i].id, st)
              IN  IF IsSome(r.cycle) \/ r.panic THEN r ELSE CycleLoopB(g, i + 1, r)
         ELSE CycleLoopB(g, i + 1, st)

detect_cycle(g) ==
    CycleLoopB(g, 1, [visited |-> {}, rec_stack |-> {}, path |-> <<>>,
                      cycle |-> None, panic |-> FALSE])

\* the errors one edge adds in the first loop of validate_graph
EdgeErrorsB(g, e) ==
    (IF e.source \notin NodeIdsOf(g) THEN <<Err("InvalidEdgeSource", <<e.source>>)>> ELSE <<>>)
    \o (IF e.target \notin NodeIdsOf(g) THEN <<Err("InvalidEdgeTarget", <<e.target>>)>> ELSE <<>>)

\* concatenation of f(s[1]), f(s[2]), ...: a loop that pushes per element
FlatMap(s, f(_)) ==
    LET F[i \in 0..Len(s)] == IF i = 0 THEN <<>> ELSE F[i - 1] \o f(s[i])
    IN  F[Len(s)]

\* a variant of StartErrorsB that has no check for a missing trigger
StartErrorsB_NoCheck(start_nodes) ==
    IF Len(start_nodes) > 1 THEN <<Err("MultipleStartNodes", start_nodes)>> ELSE <<>>

\* validate_graph: the error for the number of trigger nodes
StartErrorsB(start_nodes) ==
    IF start_nodes = <<>> THEN <<Err("NoStartNode", <<>>)>>
    ELSE IF Len(start_nodes) > 1
         THEN <<Err("MultipleStartNodes", start_nodes)>>
         ELSE <<>>

\* a variant of IncomingErrorsB that looks at the edges leaving the trigger
IncomingErrorsB_Outgoing(g, trigger_id) ==
    IF \E i \in 1..Len(g.edges) : g.edges[i].source = trigger_id
    THEN <<Err("TriggerHasIncomingEdges", <<trigger_id>>)>>
    ELSE <<>>

\* validate_graph: the error one trigger adds in the incoming-edge loop
IncomingErrorsB(g, trigger_id) ==
    IF \E i \in 1..Len(g.edges) : g.edges[i].target = trigger_id
    THEN <<Err("TriggerHasIncomingEdges", <<trigger_id>>)>>
    ELSE <<>>

validate_graph(g) ==
    LET edgeErrs == FlatMap(g.edges, LAMBDA e : EdgeErrorsB(g, e))
        start_nodes == MapSeq(SelectSeq(g.nodes, is_trigger), LAMBDA n : n.id)
        start == StartErrorsB(start_nodes)
        end_nodes == SelectSeq(g.nodes, is_end)
        noEnd == IF end_nodes = <<>> THEN <<Err("NoEndNode", <<>>)>> ELSE <<>>
        incoming == FlatMap(start_nodes, LAMBDA trigger_id : IncomingErrorsB(g, trigger_id))
        connected_nodes == get_connected_nodes(g)
        orphans == FlatMap(g.nodes, LAMBDA n :
                        IF n.id \notin connected_nodes /\ Len(g.nodes) > 1
                        THEN <<Err("OrphanNode", <<n.id>>)>>
                        ELSE <<>>)
        unreach == IF start_nodes # <<>>
                   THEN LET reachable == get_reachable_nodes(g, start_nodes[1])
                        IN  FlatMap(g.nodes, LAMBDA n :
                                IF n.id \notin reachable /\ ~is_trigger(n)
                                THEN <<Err("UnreachableNode", <<n.id>>)>>
                                ELSE <<>>)
                   ELSE <<>>
        dc == detect_cycle(g)
        cyc == IF IsSome(dc.cycle) THEN <<Err("CycleDetected", dc.cycle[1])>> ELSE <<>>
    IN  [errors |-> edgeErrs \o start \o noEnd \o incoming \o orphans \o unreach \o cyc,
         warnings |-> <<>>,
         panic |-> dc.panic]

(***************************************************************************)
(* Builder validator: validation/components.rs, validation/mod.rs          *)
(***************************************************************************)
Letters ==
    {"a", "b", "c", "d", "e", "f", "g", "h", "i", "j", "k", "l", "m",
     "n", "o", "p", "q", "r", "s", "t", "u", "v", "w", "x", "y", "z",
     "A", "B", "C", "D", "E", "F", "G", "H", "I", "J", "K", "L", "M",
     "N", "O", "P", "Q", "R", "S", "T", "U", "V", "W", "X", "Y", "Z"}

Digits == {"0", "1", "2", "3", "4", "5", "6", "7", "8", "9"}

\* char::is_alphanumeric
is_alphanumeric(c) == c \in Letters \cup Digits

\* the regex class \w
IsWordChar(c) == is_alphanumeric(c) \/ c = "_"

\* the last index of the longest run of \w characters of s that starts at i
\* (i - 1 when s[i] is no such character)
RECURSIVE WordRunEnd(_, _)
WordRunEnd(s, i) ==
    IF i <= Len(s) /\ IsWordChar(s[i]) THEN WordRunEnd(s, i + 1) ELSE i - 1

\* s[i..] starts with p
MatchAt(s, i, p) == i + Len(p) - 1 <= Len(s) /\ SubSeq(s, i, i + Len(p) - 1) = p

\* captures_iter of the regex  open (\w+) close  over s, from index i on:
\* the captured names of the leftmost non-overlapping matches
RECURSIVE Captures(_, _, _, _)
Captures(s, i, open, close) ==
    IF i > Len(s) THEN {}
    ELSE IF MatchAt(s, i, open)
         THEN LET first == i + Len(open)
                  last  == WordRunEnd(s, first)
              IN  IF last >= first /\ MatchAt(s, last + 1, close)
                  THEN {SubSeq(s, first, last)}
                       \cup Captures(s, last + 1 + Len(close), open, close)
                  ELSE Captures(s, i + 1, open, close)
         ELSE Captures(s, i + 1, open, close)

\* extract_variable_references: the names it inserts for one JSON value
RECURSIVE extract_variable_references(_)
extract_variable_references(value) ==
    IF value.t = "string"
    THEN Captures(value.s, 1, <<"{", "{">>, <<"}", "}">>)
         \cup Captures(value.s, 1, <<"$", "{">>, <<"}">>)
    ELSE IF value.t \in {"object", "array"}
    THEN UNION {extract_variable_references(value.items[i]) : i \in 1..Len(value.items)}
    ELSE {}

\* the values of an Option<HashMap<String, Value>>
MapValues(m) == IF IsSome(m) THEN {m[1][i].value : i \in 1..Len(m[1])} ELSE {}

find_used_variables(g) ==
    UNION {UNION {extract_variable_references(v) :
                     v \in MapValues(g.nodes[i].data.config)
                           \cup MapValues(g.nodes[i].data.input)} :
           i \in 1..Len(g.nodes)}

\* WorkflowNode::activity_name: activity_name, else component_name
activity_name(n) ==
    IF IsSome(n.data.activity_name) THEN n.data.activity_name ELSE n.data.component_name

\* validate_components: what one node adds
ComponentErrors(n) ==
    LET t == n.node_type
    IN  IF t \in {"Activity", "Agent"} /\ IsNone(activity_name(n))
        THEN <<Err("MissingActivityName", <<n.id>>)>>
        ELSE IF t = "Signal" /\ IsNone(n.data.signal_name)
        THEN <<ErrD("InvalidConfig", <<n.id>>, "Signal node must have a signal_name")>>
        ELSE IF t = "StateVariable" /\ n.data.label = <<>> /\ IsNone(n.data.config)
        THEN <<ErrD("InvalidConfig", <<n.id>>,
                    "State variable node must have a label or config")>>
        ELSE <<>>

ComponentWarnings(n) ==
    LET t == n.node_type
    IN  IF t \in {"Activity", "Agent"}
        THEN (IF IsNone(n.data.timeout) THEN <<Err("NoTimeout", <<n.id>>)>> ELSE <<>>)
             \o (IF IsNone(n.data.retry_policy)
                 THEN <<Err("NoRetryPolicy", <<n.id>>)>> ELSE <<>>)
        ELSE IF t \in {"ChildWorkflow", "KongLogging", "KongCache", "KongCors"}
                /\ IsNone(n.data.config)
        THEN <<Err("NoTimeout", <<n.id>>)>>
        ELSE <<>>

validate_components(g) ==
    LET used_vars == find_used_variables(g)
    IN  [errors |-> FlatMap(g.nodes, ComponentErrors),
         warnings |-> FlatMap(g.nodes, ComponentWarnings)
                      \o FlatMap(g.variables, LAMBDA var :
                             IF var.name \notin used_vars
                             THEN <<Err("UnusedVariable", <<var.name>>)>>
                             ELSE <<>>)]

\* validation::validate of the builder compiler.  panic: the call did not
\* return (the result fields are then not observed).
validateB(g) ==
    LET graph_result == validate_graph(g)
        r1 == merge(new, graph_result)
        r2 == merge(r1, validate_components(g))
    IN  [errors |-> r2.errors, warnings |-> r2.warnings, panic |-> graph_result.panic]

(***************************************************************************)
(* Standalone generator: codegen/mod.rs, codegen/typescript.rs             *)
(***************************************************************************)
\* A code block is [node, kind]: the node it was generated for and the
\* lowering rule that produced it.
Block(node, kind) == [node |-> node, kind |-> kind]

\* topological_sort: the last Trigger, then the other nodes in declaration
\* order, then the last End
topological_sort(g) ==
    LET T == {i \in 1..Len(g.nodes) : g.nodes[i].node_type = "Trigger"}
        E == {i \in 1..Len(g.nodes) : g.nodes[i].node_type = "End"}
        Last(S) == CHOOSE i \in S : \A j \in S : j <= i
        others == SelectSeq(g.nodes, LAMBDA n : n.node_type \notin {"Trigger", "End"})
    IN  (IF T # {} THEN <<g.nodes[Last(T)]>> ELSE <<>>)
        \o others
        \o (IF E # {} THEN <<g.nodes[Last(E)]>> ELSE <<>>)

\* a field of the standalone NodeData that the graphs of most requests leave
\* out of the JSON: it deserialises to None
DataField(n, f) == IF f \in DOMAIN n.data THEN n.data[f] ELSE None

UpperCase ==
    <<"A", "B", "C", "D", "E", "F", "G", "H", "I", "J", "K", "L", "M",
      "N", "O", "P", "Q", "R", "S", "T", "U", "V", "W", "X", "Y", "Z">>

LowerCase ==
    <<"a", "b", "c", "d", "e", "f", "g", "h", "i", "j", "k", "l", "m",
      "n", "o", "p", "q", "r", "s", "t", "u", "v", "w", "x", "y", "z">>

\* str::to_lowercase
to_lowercase(s) ==
    [i \in 1..Len(s) |->
        IF \E k \in 1..Len(UpperCase) : UpperCase[k] = s[i]
        THEN LowerCase[CHOOSE k \in 1..Len(UpperCase) : UpperCase[k] = s[i]]
        ELSE s[i]]

\* sanitize_id: every character that is not alphanumeric becomes '_'
sanitize_id(id) == [i \in 1..Len(id) |-> IF is_alphanumeric(id[i]) THEN id[i] ELSE "_"]

\* the scope of extract_get_variable_config and extract_set_variable_config
variable_scope(n) ==
    IF IsNone(DataField(n, "variable_scope")) THEN "Service"
    ELSE LET s == to_lowercase(DataField(n, "variable_scope")[1])
         IN  IF s = <<"s", "e", "r", "v", "i", "c", "e">> THEN "Service"
             ELSE IF s = <<"p", "r", "o", "j", "e", "c", "t">> THEN "Project"
             ELSE "Workflow"

\* the name of the three variable configs: variable_name, else the label
variable_name(n) ==
    IF IsSome(DataField(n, "variable_name")) THEN DataField(n, "variable_name")[1]
    ELSE n.data.label

unwrap_or(o, d) == IF IsSome(o) THEN o[1] ELSE d

extract_log_config(n) ==
    [include_workflow_context |-> unwrap_or(DataField(n, "include_workflow_context"), TRUE)]

extract_get_variable_config(n) ==
    [name |-> variable_name(n), scope |-> variable_scope(n),
     throw_if_missing |-> unwrap_or(DataField(n, "throw_if_missing"), FALSE)]

extract_set_variable_config(n) ==
    [name |-> variable_name(n), scope |-> variable_scope(n),
     create_if_missing |-> unwrap_or(DataField(n, "create_if_missing"), TRUE),
     merge |-> unwrap_or(DataField(n, "merge"), FALSE)]

extract_service_variable_config(n) == [name |-> variable_name(n)]

\* generate_log_code: the identifiers that the code declares and the call;
\* extract_log_config always leaves metadata None
generate_log_code(config, node_id) ==
    [component_type |-> "log",
     code |-> [idents |-> IF config.include_workflow_context
                          THEN {<<"logContext_">> \o sanitize_id(node_id)} ELSE {},
               calls |-> <<>>, state |-> <<>>, throw_code |-> None],
     is_activity |-> FALSE]

\* generate_service_variable_code
generate_service_variable_code(config, node_id) ==
    [component_type |-> "service-variable",
     code |-> [idents |-> {sanitize_id(config.name)},
               calls |-> <<>>, state |-> <<sanitize_id(config.name)>>, throw_code |-> None],
     is_activity |-> FALSE]

\* a variant of generate_get_variable_code that throws only in the scopes
\* that fetch from the store
generate_get_variable_code_NoThrowInWorkflow(config, node_id) ==
    LET var_name == sanitize_id(config.name)
        result == <<"result_">> \o sanitize_id(node_id)
        throw_code == IF config.throw_if_missing /\ config.scope # "Workflow"
                      THEN Some([tests |-> result, names |-> var_name]) ELSE None
    IN  [component_type |-> "get-variable",
         code |-> CASE config.scope = "Workflow" ->
                        [idents |-> {result, var_name}, calls |-> <<>>,
                         state |-> <<var_name>>, throw_code |-> throw_code]
                    [] config.scope = "Service" ->
                        [idents |-> {result}, calls |-> <<<<"acts", "getServiceVariable">>>>,
                         state |-> <<>>, throw_code |-> throw_code]
                    [] config.scope = "Project" ->
                        [idents |-> {result}, calls |-> <<<<"acts", "getProjectVariable">>>>,
                         state |-> <<>>, throw_code |-> throw_code],
         is_activity |-> config.scope \in {"Service", "Project"}]

\* generate_get_variable_code.  code: the identifiers declared or used as
\* state slots (idents), the awaited proxy calls (calls), the state slots
\* read (state) and the conditional throw (throw_code, None when absent).
generate_get_variable_code(config, node_id) ==
    LET var_name == sanitize_id(config.name)
        result == <<"result_">> \o sanitize_id(node_id)
        throw_code == IF config.throw_if_missing
                      THEN Some([tests |-> result, names |-> var_name]) ELSE None
    IN  [component_type |-> "get-variable",
         code |-> CASE config.scope = "Workflow" ->
                        [idents |-> {result, var_name}, calls |-> <<>>,
                         state |-> <<var_name>>, throw_code |-> throw_code]
                    [] config.scope = "Service" ->
                        [idents |-> {result}, calls |-> <<<<"acts", "getServiceVariable">>>>,
                         state |-> <<>>, throw_code |-> throw_code]
                    [] config.scope = "Project" ->
                        [idents |-> {result}, calls |-> <<<<"acts", "getProjectVariable">>>>,
                         state |-> <<>>, throw_code |-> throw_code],
         is_activity |-> config.scope \in {"Service", "Project"}]

\* generate_set_variable_code, described as generate_get_variable_code
generate_set_variable_code(config, node_id) ==
    LET var_name == sanitize_id(config.name)
        id == sanitize_id(node_id)
    IN  [component_type |-> "set-variable",
         code |-> CASE config.scope = "Workflow" ->
                        [idents |-> {<<"prevValue_">> \o id, var_name}, calls |-> <<>>,
                         state |-> <<var_name>>, throw_code |-> None]
                    [] config.scope = "Service" ->
                        [idents |-> {<<"setResult_">> \o id},
                         calls |-> <<<<"acts", "setServiceVariable">>>>,
                         state |-> <<>>, throw_code |-> None]
                    [] config.scope = "Project" ->
                        [idents |-> {<<"setResult_">> \o id},
                         calls |-> <<<<"acts", "setProjectVariable">>>>,
                         state |-> <<>>, throw_code |-> None],
         is_activity |-> config.scope \in {"Service", "Project"}]

\* the pattern that generate_node_code builds for a Log, KongLogging or
\* StateVariable node
component_pattern(n) ==
    LET component_name == unwrap_or(n.data.component_name, <<"ServiceVariable">>)
    IN  IF n.node_type # "StateVariable"
        THEN generate_log_code(extract_log_config(n), n.id)
        ELSE IF component_name \in {<<"GetVariable">>, <<"get-variable">>}
        THEN generate_get_variable_code(extract_get_variable_config(n), n.id)
        ELSE IF component_name \in {<<"SetVariable">>, <<"set-variable">>}
        THEN generate_set_variable_code(extract_set_variable_config(n), n.id)
        ELSE generate_service_variable_code(extract_service_variable_config(n), n.id)

\* the Activity nodes that generate_node_code lowers as a Log component
is_log_activity(n) ==
    \/ n.data.component_name = Some(<<"Log">>)
    \/ n.data.activity_name = Some(<<"log">>)

\* TypeScriptGenerator::generate_node_code: None, or Some(block); the block
\* of a component carries the code of its pattern
generate_node_codeS(n) ==
    LET t == n.node_type
    IN  IF t \in {"KongLogging", "StateVariable"} \/ (t = "Activity" /\ is_log_activity(n))
        THEN Some([node |-> n.id, kind |-> t, code |-> component_pattern(n).code])
        ELSE IF t \in {"Trigger", "End", "Activity", "Conditional", "Condition", "Loop"}
        THEN Some(Block(n.id, t))
        ELSE IF t = "Signal" /\ IsSome(n.data.signal_name) THEN Some(Block(n.id, t))
        ELSE IF t = "ChildWorkflow" /\ IsSome(n.data.workflow_id) THEN Some(Block(n.id, t))
        ELSE None

generate_code_blocks(g) ==
    LET blocks == FlatMap(topological_sort(g), generate_node_codeS)
    IN  IF blocks = <<>> THEN <<Block(<<>>, "return input")>> ELSE blocks

\* The five artifacts in the order in which generate renders them.
Artifacts == <<"workflow", "activities", "worker", "package_json", "tsconfig">>

\* the instants that chrono::Utc::now() returns to the calls of a request
Times == {"t1", "t2"}

\* TypeScriptGenerator::generate.  failAt: the render call that returns Err
\* (1..5), 0 when every render succeeds; rendering is outside this code.
\* now: the instant written to generated_at.
generateS(g, failAt, now) ==
    IF failAt = 0
    THEN [ok |-> TRUE, error |-> "",
          code |-> Some([workflow |-> generate_code_blocks(g),
                         generated_at |-> now,
                         rendered |-> Range(Artifacts)])]
    ELSE [ok |-> FALSE, error |-> "RenderError", code |-> None]

(***************************************************************************)
(* Builder generator: codegen/typescript.rs, schema/workflow.rs            *)
(***************************************************************************)
\* WorkflowDefinition::find_node / find_trigger: the first match, as an Option
find_node(g, id) ==
    LET S == {i \in 1..Len(g.nodes) : g.nodes[i].id = id}
    IN  IF S = {} THEN None ELSE Some(g.nodes[CHOOSE i \in S : \A j \in S : i <= j])

\* a variant of find_trigger that looks at the first declared node only
find_trigger_FirstNode(g) ==
    IF g.nodes # <<>> /\ is_trigger(g.nodes[1]) THEN Some(g.nodes[1]) ELSE None

find_trigger(g) ==
    LET S == {i \in 1..Len(g.nodes) : is_trigger(g.nodes[i])}
    IN  IF S = {} THEN None ELSE Some(g.nodes[CHOOSE i \in S : \A j \in S : i <= j])

edges_from(g, node_id) == SelectSeq(g.edges, LAMBDA e : e.source = node_id)

\* str::replace('-', "_")
replace_dash(s) == [i \in 1..Len(s) |-> IF s[i] = "-" THEN "_" ELSE s[i]]

\* CodeGenerator::generate_node_code: the empty string is None.  The block
\* of an Activity or Agent node is "const <var_name> = await
\* <handle>.<activity>(input);", that of a StateVariable "let <var_name> =
\* undefined;".
generate_node_codeB(n) ==
    IF n.node_type \in {"Activity", "Agent"}
    THEN Some([node |-> n.id, kind |-> n.node_type,
               var_name |-> <<"result_">> \o replace_dash(n.id),
               handle |-> <<"acts">>,
               activity |-> IF IsSome(activity_name(n)) THEN activity_name(n)[1]
                            ELSE <<"unknownActivity">>])
    ELSE IF n.node_type = "StateVariable"
    THEN Some([node |-> n.id, kind |-> n.node_type, var_name |-> n.data.label])
    ELSE IF n.node_type \in {"Trigger", "End", "Conditional", "Condition", "Loop"}
    THEN Some(Block(n.id, n.node_type))
    ELSE None

\* generate_workflow_body: the loop that pops the last element of queue
RECURSIVE BodyLoop(_, _, _, _)
BodyLoop(g, queue, visited, code_blocks) ==
    IF queue = <<>> THEN code_blocks
    ELSE LET node_id == queue[Len(queue)]
             rest    == SubSeq(queue, 1, Len(queue) - 1)
             v2      == visited \cup {node_id}
             node    == find_node(g, node_id)
         IN  IF node_id \in visited THEN BodyLoop(g, rest, visited, code_blocks)
             ELSE IF IsNone(node) THEN BodyLoop(g, rest, v2, code_blocks)
             ELSE BodyLoop(g,
                           rest \o MapSeq(SelectSeq(edges_from(g, node_id),
                                                    LAMBDA e : e.target \notin v2),
                                          LAMBDA e : e.target),
                           v2,
                           code_blocks \o generate_node_codeB(node[1]))

generate_workflow_body(g, start_node) == BodyLoop(g, <<start_node.id>>, {}, <<>>)

\* NodeType::is_activity
is_activity(n) == n.node_type \in {"Activity", "Agent"}

\* WorkflowSettings of the graph: timeout and retry_policy, both None when
\* the request has default settings
settings(g) ==
    IF "settings" \in DOMAIN g THEN g.settings ELSE [timeout |-> None, retry_policy |-> None]

\* WorkflowSettings::default_timeout
default_timeout(s) == IF IsSome(s.timeout) THEN s.timeout[1] ELSE <<"1", "m">>

\* convert_retry_policy: the fields of the policy, with the defaults filled in
convert_retry_policy(policy) ==
    [max_attempts |-> IF IsSome(policy.max_attempts) THEN policy.max_attempts[1] ELSE 3,
     initial_interval |-> IF IsSome(policy.initial_interval)
                          THEN policy.initial_interval[1] ELSE <<"1", "s">>,
     max_interval |-> IF IsSome(policy.max_interval)
                      THEN policy.max_interval[1] ELSE <<"1", "m">>,
     backoff_coefficient |-> IF IsSome(policy.backoff_coefficient)
                             THEN policy.backoff_coefficient[1] ELSE 2]

\* the timeout under which build_proxy_declarations files an activity node
effective_timeout(n) == IF IsSome(n.data.timeout) THEN n.data.timeout[1] ELSE <<"1", "m">>

\* the keys of proxies_by_timeout
ProxyTimeouts(g) ==
    {effective_timeout(g.nodes[i]) : i \in {j \in 1..Len(g.nodes) : is_activity(g.nodes[j])}}

ProxyName(i) == IF i = 0 THEN <<"acts">> ELSE <<"acts_", i>>

\* a variant of build_proxy_declarations with one proxy for each activity node
build_proxy_declarations_PerNode(g, order) ==
    LET acts == SelectSeq(g.nodes, is_activity)
    IN  IF acts = <<>>
        THEN <<[var_name |-> ProxyName(0), timeout |-> default_timeout(settings(g)),
                has_retry |-> IsSome(settings(g).retry_policy),
                retry_policy |-> IF IsSome(settings(g).retry_policy)
                                 THEN Some(convert_retry_policy(settings(g).retry_policy[1]))
                                 ELSE None]>>
        ELSE [k \in 1..Len(acts) |->
                 [var_name |-> ProxyName(k - 1), timeout |-> effective_timeout(acts[k]),
                  has_retry |-> FALSE, retry_policy |-> None]]

\* build_proxy_declarations.  order: the order in which the HashMap
\* proxies_by_timeout yields its keys, which the map's hasher decides.
build_proxy_declarations(g, order) ==
    IF ProxyTimeouts(g) = {}
    THEN <<[var_name |-> ProxyName(0), timeout |-> default_timeout(settings(g)),
            has_retry |-> IsSome(settings(g).retry_policy),
            retry_policy |-> IF IsSome(settings(g).retry_policy)
                             THEN Some(convert_retry_policy(settings(g).retry_policy[1]))
                             ELSE None]>>
    ELSE [k \in 1..Len(order) |->
             LET nodes == SelectSeq(g.nodes,
                                    LAMBDA n : is_activity(n) /\ effective_timeout(n) = order[k])
                 rp == IF IsSome(nodes[1].data.retry_policy)
                       THEN nodes[1].data.retry_policy
                       ELSE settings(g).retry_policy
             IN  [var_name |-> ProxyName(k - 1), timeout |-> order[k],
                  has_retry |-> IsSome(rp),
                  retry_policy |-> IF IsSome(rp) THEN Some(convert_retry_policy(rp[1]))
                                   ELSE None]]

\* a variant of CodeGenerator::generate that hands back what was rendered
\* before the failing render
generateB_Partial(g, failAt, order, now) ==
    IF IsNone(find_trigger(g))
    THEN [ok |-> FALSE, error |-> "NoStartNode", code |-> None]
    ELSE IF failAt = 0
    THEN [ok |-> TRUE, error |-> "",
          code |-> Some([workflow |-> generate_workflow_body(g, find_trigger(g)[1]),
                         proxy_declarations |-> build_proxy_declarations(g, order),
                         generated_at |-> now,
                         rendered |-> Range(Artifacts)])]
    ELSE [ok |-> FALSE, error |-> "RenderError",
          code |-> Some([rendered |-> {Artifacts[k] : k \in 1..(failAt - 1)}])]

\* CodeGenerator::generate.  failAt and now as for generateS, order as for
\* build_proxy_declarations.
generateB(g, failAt, order, now) ==
    IF IsNone(find_trigger(g))
    THEN [ok |-> FALSE, error |-> "NoStartNode", code |-> None]
    ELSE IF failAt = 0
    THEN [ok |-> TRUE, error |-> "",
          code |-> Some([workflow |-> generate_workflow_body(g, find_trigger(g)[1]),
                         proxy_declarations |-> build_proxy_declarations(g, order),
                         generated_at |-> now,
                         rendered |-> Range(Artifacts)])]
    ELSE [ok |-> FALSE, error |-> "RenderError", code |-> None]

(***************************************************************************)
(* Bounds and the graphs of the requests                                   *)
(***************************************************************************)
\* most nodes of a request graph
MaxNodes == 3

\* most edges of a request graph
MaxEdges == 2

\* the id of the i-th declared node, and of the k-th edge
IdAt == <<<<"a">>, <<"b">>, <<"c">>, <<"d">>, <<"e">>, <<"f">>>>

EdgeIdAt == <<<<"p">>, <<"q">>, <<"r">>, <<"s">>>>

\* the ids that edge endpoints are drawn from; an endpoint that no node of
\* the graph declares is a missing node
EndpointIds == <<<<"a">>, <<"b">>, <<"c">>>>

Named == [DefaultData EXCEPT !.label = <<"w">>, !.activity_name = Some(<<"w">>)]

\* the node types and data that the requests use
NodeKinds ==
    {[node_type |-> "Trigger", data |-> DefaultData],
     [node_type |-> "End", data |-> DefaultData],
     [node_type |-> "Activity", data |-> Named]}

\* node sequences of at most maxN nodes with pairwise distinct ids
NodeSeqs(maxN) ==
    UNION {{[i \in 1..k |-> WorkflowNode(IdAt[i], ks[i].node_type, ks[i].data)] :
                ks \in [1..k -> NodeKinds]} : k \in 0..maxN}

\* The (source, target) pairs are numbered 1..n*n.  An edge list is a list
\* of pair numbers in ascending or in descending order, so that every list
\* of one or two edges occurs; its last edge may repeat the first edge's id.
PairSource(q) == EndpointIds[((q - 1) \div Len(EndpointIds)) + 1]

PairTarget(q) == EndpointIds[((q - 1) % Len(EndpointIds)) + 1]

AscendingPairs(maxE) ==
    {r \in SeqsUpTo(1..(Len(EndpointIds) * Len(EndpointIds)), maxE) :
        \A i \in 1..(Len(r) - 1) : r[i] <= r[i + 1]}

EdgeSeq(r, rev, dup) ==
    [k \in 1..Len(r) |->
        LET q == IF rev THEN r[Len(r) + 1 - k] ELSE r[k]
        IN  WorkflowEdge(IF dup /\ k = Len(r) THEN EdgeIdAt[1] ELSE EdgeIdAt[k],
                         PairSource(q), PairTarget(q))]

EdgeSeqs(maxE) ==
    {EdgeSeq(r, rev, dup) : r \in AscendingPairs(maxE), rev \in BOOLEAN, dup \in BOOLEAN}

GraphsOf(maxN, maxE) ==
    {WorkflowDefinition(ns, es) : ns \in NodeSeqs(maxN), es \in EdgeSeqs(maxE)}

Graphs == GraphsOf(MaxNodes, MaxEdges)

(***************************************************************************)
(* The requests: one operation is applied to the graph of the request      *)
(***************************************************************************)
Idle == out.op = "none"

Init == wf \in Graphs /\ out = [op |-> "none"]

ValidateS ==
    /\ Idle
    /\ out' = [op |-> "validateS", val |-> validateS(wf)]
    /\ UNCHANGED wf

ValidateB ==
    /\ Idle
    /\ out' = [op |-> "validateB", val |-> validateB(wf)]
    /\ UNCHANGED wf

GenerateS ==
    /\ Idle
    /\ \E failAt \in 0..Len(Artifacts), now \in Times :
          out' = [op |-> "generateS", val |-> generateS(wf, failAt, now)]
    /\ UNCHANGED wf

GenerateB ==
    /\ Idle
    /\ \E failAt \in 0..Len(Artifacts), order \in Perms(ProxyTimeouts(wf)), now \in Times :
          out' = [op |-> "generateB", val |-> generateB(wf, failAt, order, now)]
    /\ UNCHANGED wf

Next == ValidateS \/ ValidateB \/ GenerateS \/ GenerateB

Spec == Init /\ [][Next]_vars

(***************************************************************************)
(* Requests whose graph holds a directed cycle reached from the trigger    *)
(***************************************************************************)
CycleT == <<"t">>

CycleA == <<"x">>

CycleB == <<"y">>

CycleC == <<"z">>

CycleE == <<"e">>

CycleNodeSet ==
    {WorkflowNode(CycleT, "Trigger", DefaultData), WorkflowNode(CycleA, "Activity", Named),
     WorkflowNode(CycleB, "Activity", Named), WorkflowNode(CycleC, "Activity", Named),
     WorkflowNode(CycleE, "End", DefaultData)}

\* T -> A -> B -> C -> A, and C -> E so that the End node is reached
OneCycleEdges ==
    <<WorkflowEdge(<<"p">>, CycleT, CycleA), WorkflowEdge(<<"q">>, CycleA, CycleB),
      WorkflowEdge(<<"r">>, CycleB, CycleC), WorkflowEdge(<<"s">>, CycleC, CycleA),
      WorkflowEdge(<<"u">>, CycleC, CycleE)>>

\* a second cycle A -> B -> A
TwoCycleEdges == Append(OneCycleEdges, WorkflowEdge(<<"v">>, CycleB, CycleA))

Reverse(s) == [i \in 1..Len(s) |-> s[Len(s) + 1 - i]]

\* every declaration order of the nodes, the edges in either order
OneCycleGraphs ==
    {WorkflowDefinition(ns, es) : ns \in Perms(CycleNodeSet),
                                  es \in {OneCycleEdges, Reverse(OneCycleEdges)}}

TwoCycleGraphs ==
    {WorkflowDefinition(ns, es) : ns \in Perms(CycleNodeSet),
                                  es \in {TwoCycleEdges, Reverse(TwoCycleEdges)}}

InitCycle == wf \in OneCycleGraphs \cup TwoCycleGraphs /\ out = [op |-> "none"]

SpecCycle == InitCycle /\ [][Next]_vars

(***************************************************************************)
(* Requests whose graph may repeat a node id or an edge id                 *)
(***************************************************************************)
\* the ids that the nodes of these graphs are drawn from
RepeatableIds == {<<"a">>, <<"b">>}

RepeatNodeSeqs(maxN) ==
    SeqsUpTo({WorkflowNode(id, k.node_type, k.data) : id \in RepeatableIds, k \in NodeKinds},
             maxN)

RepeatEdgeSeqs(maxE) ==
    {es \in EdgeSeqs(maxE) :
        \A i \in 1..Len(es) : es[i].source \in RepeatableIds /\ es[i].target \in RepeatableIds}

RepeatGraphs ==
    {WorkflowDefinition(ns, es) : ns \in RepeatNodeSeqs(MaxNodes),
                                  es \in RepeatEdgeSeqs(MaxEdges)}

InitRepeat == wf \in RepeatGraphs /\ out = [op |-> "none"]

SpecRepeat == InitRepeat /\ [][Next]_vars

(***************************************************************************)
(* Requests whose Activity node carries a config map: the strings that the *)
(* variable-reference lookups slice and match                              *)
(***************************************************************************)
\* the config strings: braces that open or close without a name between
\* them, whole-string references and references inside a longer string
ConfigStrings ==
    {<<>>,
     <<"{">>,
     <<"{", "{">>,
     <<"}", "}">>,
     <<"{", "{", "}">>,
     <<"{", "}", "}">>,
     <<"{", "{", "}", "}">>,
     <<"{", "{", "a", "}", "}">>,
     <<"{", "{", " ", "b", " ", "}", "}">>,
     <<"x", "{", "{", "a", "}", "}">>,
     <<"$", "{", "a", "}">>}

\* the JSON values of a config entry: a string, or a value of another type
ConfigValues == {JsonString(s) : s \in ConfigStrings} \cup {[t |-> "number"]}

WithConfig(v) ==
    [DefaultData EXCEPT !.activity_name = Some(<<"w">>),
                        !.config = Some(<<[key |-> <<"k">>, value |-> v]>>)]

\* a trigger, an Activity with a config entry whose id may repeat the
\* trigger's id, and (in the longer declaration) an End node
ConfigNodeSeqs ==
    {SubSeq(<<WorkflowNode(<<"a">>, "Trigger", DefaultData),
              WorkflowNode(id, "Activity", WithConfig(v)),
              WorkflowNode(<<"c">>, "End", DefaultData)>>, 1, n) :
        id \in RepeatableIds, v \in ConfigValues, n \in 2..3}

\* the edge lists have self-loops, two-node cycles, repeated edge ids and,
\* with the shorter declaration, endpoints that no node declares
ConfigGraphs ==
    {WorkflowDefinition(ns, es) : ns \in ConfigNodeSeqs, es \in EdgeSeqs(MaxEdges)}

InitConfig == wf \in ConfigGraphs /\ out = [op |-> "none"]

SpecConfig == InitConfig /\ [][Next]_vars

(***************************************************************************)
(* Requests whose Activity or Agent node has or lacks its names            *)
(***************************************************************************)
OptionalName == {None, Some(<<"w">>)}

\* the data of an Activity or Agent node: each of the three name fields is
\* set or missing
NameData ==
    {[DefaultData EXCEPT !.activity_name = an, !.component_name = cn, !.component_id = ci] :
        an \in OptionalName, cn \in OptionalName, ci \in OptionalName}

\* a trigger, an Activity or Agent node, and an End node
NameNodeSeqs ==
    {<<WorkflowNode(<<"a">>, "Trigger", DefaultData),
       WorkflowNode(<<"b">>, type, d),
       WorkflowNode(<<"c">>, "End", DefaultData)>> :
        type \in {"Activity", "Agent"}, d \in NameData}

NameGraphs ==
    {WorkflowDefinition(ns, es) : ns \in NameNodeSeqs, es \in EdgeSeqs(MaxEdges)}

InitNames == wf \in NameGraphs /\ out = [op |-> "none"]

SpecNames == InitNames /\ [][Next]_vars

(***************************************************************************)
(* Requests with declared variables and references to them in the config   *)
(* or input map of a node                                                  *)
(***************************************************************************)
\* most declared variables of a request
MaxVars == 2

\* the variable names: a word, a name with a hyphen, and a second word
VarNames == {<<"a">>, <<"a", "-", "b">>, <<"z">>}

WorkflowVariable(name) == [name |-> name]

CurlyRef(name) == <<"{", "{">> \o name \o <<"}", "}">>

DollarRef(name) == <<"$", "{">> \o name \o <<"}">>

\* strings with a reference as the whole string or inside a longer one, with
\* blanks inside the braces, and without any reference
RefStrings ==
    {CurlyRef(n) : n \in {<<"a">>, <<"a", "-", "b">>}}
    \cup {DollarRef(n) : n \in {<<"a">>, <<"a", "-", "b">>}}
    \cup {<<"x", " ">> \o CurlyRef(<<"a">>) \o <<"y">>,
          <<"{", "{", " ", "a", " ", "}", "}">>,
          <<"a">>}

JsonArray(items) == [t |-> "array", items |-> items]

JsonObject(items) == [t |-> "object", items |-> items]

\* a string, the string inside an array, inside an object inside an array,
\* and a number
RefValues ==
    {JsonString(s) : s \in RefStrings}
    \cup {JsonArray(<<[t |-> "number"], JsonString(s)>>) : s \in RefStrings}
    \cup {JsonArray(<<JsonObject(<<JsonString(s)>>)>>) : s \in RefStrings}
    \cup {[t |-> "number"]}

\* the data of the Activity node: the value sits in config or in input
RefData ==
    {[DefaultData EXCEPT !.activity_name = Some(<<"w">>),
                         !.config = Some(<<[key |-> <<"k">>, value |-> v]>>)] :
        v \in RefValues}
    \cup {[DefaultData EXCEPT !.activity_name = Some(<<"w">>),
                              !.input = Some(<<[key |-> <<"k">>, value |-> v]>>)] :
             v \in RefValues}
    \cup {Named}

VarGraphs ==
    {[WorkflowDefinition(<<WorkflowNode(<<"a">>, "Trigger", DefaultData),
                           WorkflowNode(<<"b">>, "Activity", d),
                           WorkflowNode(<<"c">>, "End", DefaultData)>>,
                         <<WorkflowEdge(<<"p">>, <<"a">>, <<"b">>),
                           WorkflowEdge(<<"q">>, <<"b">>, <<"c">>)>>)
        EXCEPT !.variables = MapSeq(names, WorkflowVariable)] :
        d \in RefData, names \in SeqsUpTo(VarNames, MaxVars)}

InitVars == wf \in VarGraphs /\ out = [op |-> "none"]

SpecVars == InitVars /\ [][Next]_vars

(***************************************************************************)
(* The compile handlers: api/handlers.rs of both compilers.  A handler     *)
(* validates, then answers at once or generates (the standalone may then   *)
(* verify) and answers.  out.calls lists the calls made so far.            *)
(***************************************************************************)
\* Display of a builder ValidationError or ValidationWarning: the message
\* text of the variant with its fields
to_string(e) == [text |-> e.kind, args |-> e.ids, message |-> e.detail]

\* convert_validation_error of the builder handlers
convert_validation_error(error) ==
    [code |-> error.kind,
     message |-> to_string(error),
     node_id |-> IF error.kind \in {"NoStartNode", "NoEndNode", "CycleDetected",
                                    "MissingRequiredField"}
                 THEN None
                 ELSE IF error.ids = <<>> THEN None ELSE Some(error.ids[1]),
     severity |-> "error"]

\* the outcomes of the optional verification of the standalone handler
VerifyOutcomes == {"off", "verified", "failed"}

\* compile_workflow: the call of validate
CompileValidateS ==
    /\ Idle
    /\ out' = [op |-> "compileS", pc |-> "validated", calls |-> <<"validate">>,
               validation |-> validateS(wf)]
    /\ UNCHANGED wf

\* compile_workflow: the early return for an invalid graph
CompileInvalidS ==
    /\ out.op = "compileS" /\ out.pc = "validated"
    /\ ~out.validation.valid
    /\ out' = [op |-> "compileS", pc |-> "done", calls |-> out.calls,
               validation |-> out.validation,
               val |-> [status |-> "ok", validation |-> Some(out.validation),
                        code |-> None, verification |-> None]]
    /\ UNCHANGED wf

\* compile_workflow: generate, the optional verify, and the response
CompileGenerateS ==
    /\ out.op = "compileS" /\ out.pc = "validated"
    /\ out.validation.valid
    /\ \E failAt \in 0..Len(Artifacts), verify \in VerifyOutcomes, now \in Times :
          LET r == generateS(wf, failAt, now)
              calls == out.calls \o <<"generate">>
                       \o (IF r.ok /\ verify # "off" THEN <<"verify">> ELSE <<>>)
          IN  out' = [op |-> "compileS", pc |-> "done", calls |-> calls,
                      validation |-> out.validation,
                      val |-> IF r.ok /\ verify # "failed"
                              THEN [status |-> "ok",
                                    validation |-> Some(out.validation),
                                    code |-> r.code,
                                    verification |-> IF verify = "off" THEN None
                                                     ELSE Some("result")]
                              ELSE [status |-> "internal_error", validation |-> None,
                                    code |-> None, verification |-> None]]
    /\ UNCHANGED wf

\* compile of the builder: the call of validate
CompileValidateB ==
    /\ Idle
    /\ out' = [op |-> "compileB", pc |-> "validated", calls |-> <<"validate">>,
               validation |-> validateB(wf)]
    /\ UNCHANGED wf

\* compile of the builder: the early return for an invalid graph
CompileInvalidB ==
    /\ out.op = "compileB" /\ out.pc = "validated"
    /\ ~is_valid(out.validation)
    /\ out' = [op |-> "compileB", pc |-> "done", calls |-> out.calls,
               validation |-> out.validation,
               val |-> [status |-> "ok", success |-> FALSE, code |-> None,
                        errors |-> MapSeq(out.validation.errors, convert_validation_error),
                        warnings |-> MapSeq(out.validation.warnings, to_string)]]
    /\ UNCHANGED wf

\* compile of the builder: generate and the response
CompileGenerateB ==
    /\ out.op = "compileB" /\ out.pc = "validated"
    /\ is_valid(out.validation)
    /\ \E failAt \in 0..Len(Artifacts), order \in Perms(ProxyTimeouts(wf)), now \in Times :
          LET r == generateB(wf, failAt, order, now)
          IN  out' = [op |-> "compileB", pc |-> "done",
                      calls |-> out.calls \o <<"generate">>,
                      validation |-> out.validation,
                      val |-> IF r.ok
                              THEN [status |-> "ok", success |-> TRUE, code |-> r.code,
                                    errors |-> <<>>,
                                    warnings |-> MapSeq(out.validation.warnings, to_string)]
                              ELSE [status |-> "ok", success |-> FALSE, code |-> None,
                                    errors |-> <<[code |-> "CODEGEN_ERROR",
                                                  message |-> [text |-> r.error, args |-> <<>>,
                                                               message |-> ""],
                                                  node_id |-> None,
                                                  severity |-> "error"]>>,
                                    warnings |-> <<>>]]
    /\ UNCHANGED wf

NextCompile ==
    \/ CompileValidateS \/ CompileInvalidS \/ CompileGenerateS
    \/ CompileValidateB \/ CompileInvalidB \/ CompileGenerateB

SpecCompile == Init /\ [][NextCompile]_vars

(***************************************************************************)
(* Valid request graphs in every declaration order: a chain, and a branch  *)
(* with two End nodes                                                      *)
(***************************************************************************)
ChainNodeSet ==
    {WorkflowNode(<<"t">>, "Trigger", DefaultData), WorkflowNode(<<"x">>, "Activity", Named),
     WorkflowNode(<<"y">>, "Activity", Named), WorkflowNode(<<"e">>, "End", DefaultData)}

\* t -> x -> y -> e
ChainEdges ==
    <<WorkflowEdge(<<"p">>, <<"t">>, <<"x">>), WorkflowEdge(<<"q">>, <<"x">>, <<"y">>),
      WorkflowEdge(<<"r">>, <<"y">>, <<"e">>)>>

BranchNodeSet == ChainNodeSet \cup {WorkflowNode(<<"f">>, "End", DefaultData)}

\* t has two outgoing edges; each branch ends in its own End node
BranchEdges ==
    <<WorkflowEdge(<<"p">>, <<"t">>, <<"x">>), WorkflowEdge(<<"q">>, <<"t">>, <<"y">>),
      WorkflowEdge(<<"r">>, <<"x">>, <<"e">>), WorkflowEdge(<<"s">>, <<"y">>, <<"f">>)>>

OrderGraphs ==
    {WorkflowDefinition(ns, es) : ns \in Perms(ChainNodeSet),
                                  es \in {ChainEdges, Reverse(ChainEdges)}}
    \cup {WorkflowDefinition(ns, es) : ns \in Perms(BranchNodeSet),
                                       es \in {BranchEdges, Reverse(BranchEdges)}}

InitOrder == wf \in OrderGraphs /\ out = [op |-> "none"]

SpecOrder == InitOrder /\ [][Next]_vars

(***************************************************************************)
(* Generating twice: the graphs whose activity nodes carry timeouts, and a  *)
(* second call of generate on the graph of the first.                       *)
(***************************************************************************)
MaxProxyNodes == 2

\* the timeout field of an activity node
NodeTimeouts ==
    {None, Some(<<"1", "m">>), Some(<<"5", "m">>), Some(<<"1", "0", "s">>)}

\* RetryPolicy with every optional field None
DefaultRetryPolicy ==
    [max_attempts |-> None, initial_interval |-> None,
     max_interval |-> None, backoff_coefficient |-> None]

WorkflowSettings ==
    {[timeout |-> to, retry_policy |-> rp] :
        to \in {None, Some(<<"5", "m">>)}, rp \in {None, Some(DefaultRetryPolicy)}}

ProxyIds == <<<<"b">>, <<"c">>, <<"d">>, <<"e">>>>

\* a trigger "a" followed by the activity nodes "b", "c", ... in a chain
ProxyNodeSeqs ==
    {<<WorkflowNode(<<"a">>, "Trigger", DefaultData)>> \o
     [k \in 1..n |->
        WorkflowNode(ProxyIds[k], ty[k], [DefaultData EXCEPT !.timeout = to[k]])] :
        <<n, ty, to>> \in
           UNION {{<<m, y, o>> : y \in [1..m -> {"Activity", "Agent"}],
                                 o \in [1..m -> NodeTimeouts]} : m \in 0..MaxProxyNodes}}

ProxyEdges(ns) ==
    [k \in 1..(Len(ns) - 1) |-> WorkflowEdge(<<"e", k>>, ns[k].id, ns[k + 1].id)]

ProxyGraphs ==
    {[settings |-> s] @@ WorkflowDefinition(ns, ProxyEdges(ns)) :
        ns \in ProxyNodeSeqs, s \in WorkflowSettings}

InitProxy == wf \in ProxyGraphs /\ out = [op |-> "none"]

\* a second TypeScriptGenerator::generate on the graph of the first call
GenerateAgainS ==
    /\ out.op = "generateS"
    /\ \E failAt \in 0..Len(Artifacts), now \in Times :
          out' = [op |-> "generateS2", first |-> out.val,
                  val |-> generateS(wf, failAt, now)]
    /\ UNCHANGED wf

\* a second CodeGenerator::generate on the graph of the first call
GenerateAgainB ==
    /\ out.op = "generateB"
    /\ \E failAt \in 0..Len(Artifacts), order \in Perms(ProxyTimeouts(wf)), now \in Times :
          out' = [op |-> "generateB2", first |-> out.val,
                  val |-> generateB(wf, failAt, order, now)]
    /\ UNCHANGED wf

NextTwice == Next \/ GenerateAgainS \/ GenerateAgainB

SpecProxy == InitProxy /\ [][NextTwice]_vars

(***************************************************************************)
(* Requests with one component node between the trigger and the End node:   *)
(* its id, its names and its variable settings vary.                        *)
(***************************************************************************)
ComponentIds == {<<"n", "1">>, <<"n", "-", "1">>, <<"n", ".", "1">>, <<"n", " ", "1">>}

VariableNames == {None, Some(<<"v">>), Some(<<"v", "-", "x">>), Some(<<"v", ".", "x">>)}

VariableLabels == {<<"w">>, <<"m", " ", "v">>}

VariableComponents ==
    {None, Some(<<"GetVariable">>), Some(<<"get-variable">>),
     Some(<<"SetVariable">>), Some(<<"ServiceVariable">>)}

VariableScopes ==
    {None, Some(<<"s", "e", "r", "v", "i", "c", "e">>),
     Some(<<"P", "r", "o", "j", "e", "c", "t">>),
     Some(<<"w", "o", "r", "k", "f", "l", "o", "w">>), Some(<<"x">>)}

\* the data of a StateVariable node
VariableData ==
    {[variable_name |-> vn, variable_scope |-> vs, throw_if_missing |-> tm]
     @@ [DefaultData EXCEPT !.label = l, !.component_name = cn] :
        vn \in VariableNames, vs \in VariableScopes, tm \in {None, Some(TRUE), Some(FALSE)},
        l \in VariableLabels, cn \in VariableComponents}

ComponentKinds ==
    {[node_type |-> "Activity", data |-> Named],
     [node_type |-> "Agent", data |-> Named],
     [node_type |-> "Activity", data |-> [Named EXCEPT !.component_name = Some(<<"Log">>)]],
     [node_type |-> "KongLogging", data |-> DefaultData]}
    \cup {[node_type |-> "StateVariable", data |-> d] : d \in VariableData}

ComponentGraphs ==
    {WorkflowDefinition(<<WorkflowNode(<<"a">>, "Trigger", DefaultData),
                          WorkflowNode(id, k.node_type, k.data),
                          WorkflowNode(<<"c">>, "End", DefaultData)>>,
                        <<WorkflowEdge(<<"p">>, <<"a">>, id),
                          WorkflowEdge(<<"q">>, id, <<"c">>)>>) :
        id \in ComponentIds, k \in ComponentKinds}

InitComponent == wf \in ComponentGraphs /\ out = [op |-> "none"]

\* generate_get_variable_code on the config of a GetVariable node
GetVariableCode ==
    /\ Idle
    /\ \E i \in 1..Len(wf.nodes) :
          /\ wf.nodes[i].node_type = "StateVariable"
          /\ wf.nodes[i].data.component_name \in {Some(<<"GetVariable">>), Some(<<"get-variable">>)}
          /\ out' = [op |-> "get_variable_code",
                     config |-> extract_get_variable_config(wf.nodes[i]),
                     val |-> generate_get_variable_code(
                                extract_get_variable_config(wf.nodes[i]), wf.nodes[i].id)]
    /\ UNCHANGED wf

\* generate_set_variable_code on the config of a SetVariable node
SetVariableCode ==
    /\ Idle
    /\ \E i \in 1..Len(wf.nodes) :
          /\ wf.nodes[i].node_type = "StateVariable"
          /\ wf.nodes[i].data.component_name \in {Some(<<"SetVariable">>), Some(<<"set-variable">>)}
          /\ out' = [op |-> "set_variable_code",
                     config |-> extract_set_variable_config(wf.nodes[i]),
                     val |-> generate_set_variable_code(
                                extract_set_variable_config(wf.nodes[i]), wf.nodes[i].id)]
    /\ UNCHANGED wf

NextComponent == Next \/ GetVariableCode \/ SetVariableCode

SpecComponent == InitComponent /\ [][NextComponent]_vars

(***************************************************************************)
(* Requests whose graph branches into two End nodes, or whose two paths     *)
(* from the trigger join at the End node.                                   *)
(***************************************************************************)
\* t has two outgoing edges and both branches end in e
DiamondEdges ==
    <<WorkflowEdge(<<"p">>, <<"t">>, <<"x">>), WorkflowEdge(<<"q">>, <<"t">>, <<"y">>),
      WorkflowEdge(<<"r">>, <<"x">>, <<"e">>), WorkflowEdge(<<"s">>, <<"y">>, <<"e">>)>>

DispatchGraphs ==
    {WorkflowDefinition(ns, es) : ns \in Perms(ChainNodeSet),
                                  es \in {DiamondEdges, Reverse(DiamondEdges)}}
    \cup {WorkflowDefinition(ns, es) : ns \in Perms(BranchNodeSet),
                                       es \in {BranchEdges, Reverse(BranchEdges)}}

InitDispatch == wf \in DispatchGraphs /\ out = [op |-> "none"]

SpecDispatch == InitDispatch /\ [][Next]_vars

(***************************************************************************)
(* The graph traversals, one loop iteration or one call of the recursive    *)
(* function at a time.  A traversal is the record                           *)
(*   [alg, work, seen, rec_stack, frames, i, expanded, done]:               *)
(* work is the stack or queue of the worklist loops, seen the set reachable *)
(* or visited, frames the calls of the recursive dfs that have not returned *)
(* (the node and the neighbours it has still to look at), i the index of    *)
(* the outer loop over the nodes, expanded the node ids whose neighbours    *)
(* the traversal has looked up so far, done the end of the traversal.       *)
(***************************************************************************)
MaxTraverseEdges == 2

\* the ids that the edges of these graphs name: three declared nodes and one
\* node that the graph does not declare
TraverseEndpoints == {<<"a">>, <<"b">>, <<"c">>, <<"z">>}

TraverseEdgeSeqs ==
    UNION {{[k \in 1..n |-> WorkflowEdge(EdgeIdAt[k], st[k][1], st[k][2])] :
               st \in [1..n -> TraverseEndpoints \X TraverseEndpoints]} :
           n \in 0..MaxTraverseEdges}

TraverseGraphs ==
    {WorkflowDefinition(<<WorkflowNode(<<"a">>, "Trigger", DefaultData),
                          WorkflowNode(<<"b">>, "Activity", Named),
                          WorkflowNode(<<"c">>, "End", DefaultData)>>, es) :
        es \in TraverseEdgeSeqs}

InitTraverse == wf \in TraverseGraphs /\ out = [op |-> "none"]

Traversal(alg, work, seen, i) ==
    [op |-> "traverse", alg |-> alg, work |-> work, seen |-> seen, rec_stack |-> {},
     frames |-> <<>>, i |-> i, expanded |-> <<>>, done |-> FALSE]

\* check_reachability: one iteration of "while let Some(node_id) = stack.pop()"
ReachStepS(g, st) ==
    IF st.work = <<>> THEN [st EXCEPT !.done = TRUE]
    ELSE LET node_id == st.work[Len(st.work)]
             rest    == SubSeq(st.work, 1, Len(st.work) - 1)
             r2      == st.seen \cup {node_id}
         IN  IF node_id \in st.seen THEN [st EXCEPT !.work = rest]
             ELSE [st EXCEPT !.seen = r2,
                             !.expanded = Append(@, node_id),
                             !.work = rest \o SelectSeq(Adj(g, node_id),
                                                        LAMBDA n : n \notin r2)]

\* a variant of ReachStepB that inserts a node into reachable when it leaves
\* the queue, not when it enters it
ReachStepB_InsertOnPop(g, st) ==
    IF st.work = <<>> THEN [st EXCEPT !.done = TRUE]
    ELSE LET current == Head(st.work)
         IN  [st EXCEPT !.work = Tail(@) \o SelectSeq(Adj(g, current),
                                                      LAMBDA n : n \notin st.seen \cup {current}),
                        !.seen = @ \cup {current},
                        !.expanded = Append(@, current)]

\* get_reachable_nodes: one iteration of "while let Some(current) =
\* queue.pop_front()"
ReachStepB(g, st) ==
    IF st.work = <<>> THEN [st EXCEPT !.done = TRUE]
    ELSE LET current   == Head(st.work)
             neighbors == Adj(g, current)
             F[k \in 0..Len(neighbors)] ==
                 IF k = 0 THEN <<>>
                 ELSE IF neighbors[k] \in st.seen \cup Range(F[k - 1])
                      THEN F[k - 1]
                      ELSE Append(F[k - 1], neighbors[k])
             added == F[Len(neighbors)]
         IN  [st EXCEPT !.work = Tail(@) \o added,
                        !.seen = @ \cup Range(added),
                        !.expanded = Append(@, current)]

\* generate_workflow_body: one iteration of "while let Some(node_id) =
\* queue.pop()"
BodyStepB(g, st) ==
    IF st.work = <<>> THEN [st EXCEPT !.done = TRUE]
    ELSE LET node_id == st.work[Len(st.work)]
             rest    == SubSeq(st.work, 1, Len(st.work) - 1)
             v2      == st.seen \cup {node_id}
         IN  IF node_id \in st.seen THEN [st EXCEPT !.work = rest]
             ELSE IF IsNone(find_node(g, node_id)) THEN [st EXCEPT !.work = rest, !.seen = v2]
             ELSE [st EXCEPT !.seen = v2,
                             !.expanded = Append(@, node_id),
                             !.work = rest \o MapSeq(SelectSeq(edges_from(g, node_id),
                                                               LAMBDA e : e.target \notin v2),
                                                     LAMBDA e : e.target)]

\* the call dfs(node, ...) or dfs_cycle_detect(node, ...): the inserts and
\* the lookup of the neighbours
CallDfs(g, st, node) ==
    [st EXCEPT !.seen = @ \cup {node},
               !.rec_stack = @ \cup {node},
               !.expanded = Append(@, node),
               !.frames = Append(@, [node |-> node, neighbors |-> Adj(g, node)])]

\* check_cycles and detect_cycle, which share their control flow: the next
\* iteration of the outer loop over the nodes or, inside dfs, of the loop
\* over the neighbours; a neighbour on rec_stack ends the traversal
CycleStep(g, st) ==
    IF st.frames = <<>>
    THEN IF st.i > Len(g.nodes) THEN [st EXCEPT !.done = TRUE]
         ELSE IF g.nodes[st.i].id \notin st.seen THEN CallDfs(g, st, g.nodes[st.i].id)
         ELSE [st EXCEPT !.i = @ + 1]
    ELSE LET d   == Len(st.frames)
             top == st.frames[d]
         IN  IF top.neighbors = <<>>
             THEN [st EXCEPT !.rec_stack = @ \ {top.node},
                             !.frames = SubSeq(@, 1, d - 1),
                             !.i = IF d = 1 THEN @ + 1 ELSE @]
             ELSE LET neighbor == Head(top.neighbors)
                      st1 == [st EXCEPT !.frames[d].neighbors = Tail(@)]
                  IN  IF neighbor \notin st.seen THEN CallDfs(g, st1, neighbor)
                      ELSE IF neighbor \in st.rec_stack THEN [st1 EXCEPT !.done = TRUE]
                      ELSE st1

Traversing(alg) == out.op = "traverse" /\ out.alg = alg /\ ~out.done

StartReachS ==
    /\ Idle
    /\ out' = Traversal("check_reachability", <<SelectSeq(wf.nodes, is_trigger)[1].id>>, {}, 0)
    /\ UNCHANGED wf

StepReachS ==
    /\ Traversing("check_reachability")
    /\ out' = ReachStepS(wf, out)
    /\ UNCHANGED wf

StartCycleS ==
    /\ Idle
    /\ out' = Traversal("check_cycles", <<>>, {}, 1)
    /\ UNCHANGED wf

StepCycleS ==
    /\ Traversing("check_cycles")
    /\ out' = CycleStep(wf, out)
    /\ UNCHANGED wf

StartReachB ==
    /\ Idle
    /\ \E start \in Range(SelectSeq(wf.nodes, is_trigger)) :
          out' = Traversal("get_reachable_nodes", <<start.id>>, {start.id}, 0)
    /\ UNCHANGED wf

StepReachB ==
    /\ Traversing("get_reachable_nodes")
    /\ out' = ReachStepB(wf, out)
    /\ UNCHANGED wf

StartCycleB ==
    /\ Idle
    /\ out' = Traversal("detect_cycle", <<>>, {}, 1)
    /\ UNCHANGED wf

StepCycleB ==
    /\ Traversing("detect_cycle")
    /\ out' = CycleStep(wf, out)
    /\ UNCHANGED wf

StartBodyB ==
    /\ Idle
    /\ IsSome(find_trigger(wf))
    /\ out' = Traversal("generate_workflow_body", <<find_trigger(wf)[1].id>>, {}, 0)
    /\ UNCHANGED wf

StepBodyB ==
    /\ Traversing("generate_workflow_body")
    /\ out' = BodyStepB(wf, out)
    /\ UNCHANGED wf

NextTraverse ==
    \/ StartReachS \/ StepReachS \/ StartCycleS \/ StepCycleS
    \/ StartReachB \/ StepReachB \/ StartCycleB \/ StepCycleB
    \/ StartBodyB \/ StepBodyB

\* a traversal runs inside one call, which keeps running until it returns
SpecTraverse == InitTraverse /\ [][NextTraverse]_vars /\ WF_vars(NextTraverse)

(***************************************************************************)
(* Concurrent generate calls of the standalone compiler and the process-    *)
(* wide registry HANDLEBARS: codegen/mod.rs.  The state is the record       *)
(*   [once, registry, local, view, pc, inits]:                              *)
(* once is the state of the OnceLock, registry its value (the registered    *)
(* template names), local[c] the Handlebars that caller c is building       *)
(* inside the closure, view[c] the registry that get_handlebars returned to *)
(* c, pc[c] the position of c, inits the number of runs of the closure.     *)
(* The templates are include_str! constants of the build, so the five       *)
(* register_template_string calls return Ok.                                *)
(***************************************************************************)
Callers == {"c1", "c2", "c3"}

RegistryGraph ==
    WorkflowDefinition(<<WorkflowNode(<<"a">>, "Trigger", DefaultData),
                         WorkflowNode(<<"c">>, "End", DefaultData)>>,
                       <<WorkflowEdge(<<"p">>, <<"a">>, <<"c">>)>>)

InitRegistry ==
    /\ wf = RegistryGraph
    /\ out = [op |-> "registry", once |-> "incomplete", registry |-> <<>>,
              local |-> [c \in Callers |-> <<>>], view |-> [c \in Callers |-> <<>>],
              pc |-> [c \in Callers |-> "start"], inits |-> 0]

\* a variant of get_or_init without the OnceLock: a caller that finds the
\* registry not yet published runs the closure itself
get_or_init_Unsynchronised(st, c) ==
    IF st.once = "complete"
    THEN [st EXCEPT !.pc[c] = "have", !.view[c] = st.registry]
    ELSE [st EXCEPT !.once = "running", !.pc[c] = "init", !.local[c] = <<>>,
                    !.inits = @ + 1]

\* HANDLEBARS.get_or_init(closure): the value when the cell is complete; the
\* first caller of an incomplete cell runs the closure; a caller that
\* arrives while the closure runs blocks until the cell is complete
get_or_init(st, c) ==
    IF st.once = "complete"
    THEN [st EXCEPT !.pc[c] = "have", !.view[c] = st.registry]
    ELSE IF st.once = "incomplete"
    THEN [st EXCEPT !.once = "running", !.pc[c] = "init", !.local[c] = <<>>,
                    !.inits = @ + 1]
    ELSE [st EXCEPT !.pc[c] = "blocked"]

\* TypeScriptGenerator::generate: let hbs = get_handlebars()
GetHandlebars(c) ==
    /\ out.pc[c] = "start"
    /\ out' = get_or_init(out, c)
    /\ UNCHANGED wf

\* the closure: the next hbs.register_template_string(...)
RegisterTemplate(c) ==
    /\ out.pc[c] = "init"
    /\ Len(out.local[c]) < Len(Artifacts)
    /\ out' = [out EXCEPT !.local[c] = Append(@, Artifacts[Len(@) + 1])]
    /\ UNCHANGED wf

\* the closure returns hbs: the cell takes the value and becomes complete
FinishInit(c) ==
    /\ out.pc[c] = "init"
    /\ Len(out.local[c]) = Len(Artifacts)
    /\ out' = [out EXCEPT !.registry = out.local[c], !.once = "complete",
                          !.pc[c] = "have", !.view[c] = out.local[c]]
    /\ UNCHANGED wf

\* a blocked caller resumes once the cell is complete
Unblock(c) ==
    /\ out.pc[c] = "blocked"
    /\ out.once = "complete"
    /\ out' = [out EXCEPT !.pc[c] = "have", !.view[c] = out.registry]
    /\ UNCHANGED wf

\* the five hbs.render calls of generate: they read the registry
Render(c) ==
    /\ out.pc[c] = "have"
    /\ out' = [out EXCEPT !.pc[c] = IF Range(Artifacts) \subseteq Range(out.view[c])
                                    THEN "rendered" ELSE "template not found"]
    /\ UNCHANGED wf

\* the call returns; the caller may call generate again
Return(c) ==
    /\ out.pc[c] \in {"rendered", "template not found"}
    /\ out' = [out EXCEPT !.pc[c] = "start", !.view[c] = <<>>]
    /\ UNCHANGED wf

NextRegistry ==
    \E c \in Callers :
        \/ GetHandlebars(c) \/ RegisterTemplate(c) \/ FinishInit(c)
        \/ Unblock(c) \/ Render(c) \/ Return(c)

SpecRegistry == InitRegistry /\ [][NextRegistry]_vars

(***************************************************************************)
(* The ValidationResult objects: a result is built or returned by          *)
(* validate, and then changed through its methods                          *)
(***************************************************************************)
\* most entries (errors and warnings) of a result that a method is applied to
MaxResultLen == 3

\* most nodes of the graphs that are validated before the result is changed
MaxResultNodes == 2

ResultGraphs == GraphsOf(MaxResultNodes, 1)

ErrorChoices == {Err("NoStartNode", <<>>), Err("OrphanNode", <<<<"a">>>>)}

WarningChoicesS == {Err("DeadEnd", <<<<"a">>>>)}

WarningChoicesB == {Err("NoTimeout", <<<<"a">>>>)}

IsResultS == out.op \in {"validateS", "success", "failure", "add_errorS", "add_warningS"}

IsResultB ==
    out.op \in {"validateB", "new", "with_error", "add_errorB", "add_warningB", "merge"}

Small == Len(out.val.errors) + Len(out.val.warnings) < MaxResultLen

Success == Idle /\ out' = [op |-> "success", val |-> success] /\ UNCHANGED wf

Failure ==
    /\ Idle
    /\ \E e \in ErrorChoices : out' = [op |-> "failure", val |-> failure(e)]
    /\ UNCHANGED wf

AddErrorS ==
    /\ IsResultS /\ Small
    /\ \E e \in ErrorChoices : out' = [op |-> "add_errorS", val |-> add_errorS(out.val, e)]
    /\ UNCHANGED wf

AddWarningS ==
    /\ IsResultS /\ Small
    /\ \E w \in WarningChoicesS :
          out' = [op |-> "add_warningS", val |-> add_warningS(out.val, w)]
    /\ UNCHANGED wf

New == Idle /\ out' = [op |-> "new", val |-> new] /\ UNCHANGED wf

WithError ==
    /\ Idle
    /\ \E e \in ErrorChoices : out' = [op |-> "with_error", val |-> with_error(e)]
    /\ UNCHANGED wf

AddErrorB ==
    /\ IsResultB /\ Small
    /\ \E e \in ErrorChoices : out' = [op |-> "add_errorB", val |-> add_errorB(out.val, e)]
    /\ UNCHANGED wf

AddWarningB ==
    /\ IsResultB /\ Small
    /\ \E w \in WarningChoicesB :
          out' = [op |-> "add_warningB", val |-> add_warningB(out.val, w)]
    /\ UNCHANGED wf

\* the results that are merged into another: fresh ones and those of the passes
MergeChoices ==
    {new, validate_components(wf)}
    \cup {with_error(e) : e \in ErrorChoices}
    \cup {[errors |-> validate_graph(wf).errors, warnings |-> validate_graph(wf).warnings]}

Merge ==
    /\ IsResultB /\ Small
    /\ \E other \in MergeChoices : out' = [op |-> "merge", val |-> merge(out.val, other)]
    /\ UNCHANGED wf

InitResult == wf \in ResultGraphs /\ out = [op |-> "none"]

NextResult ==
    \/ ValidateS \/ Success \/ Failure \/ AddErrorS \/ AddWarningS
    \/ ValidateB \/ New \/ WithError \/ AddErrorB \/ AddWarningB \/ Merge

SpecResult == InitResult /\ [][NextResult]_vars

(***************************************************************************)
(* Vocabulary of the properties                                            *)
(***************************************************************************)
IsValidate == out.op \in {"validateS", "validateB"}

IsGenerate == out.op \in {"generateS", "generateB"}

\* the validity that the result reports: the stored flag, or is_valid()
ReportsValid == IF IsResultS THEN out.val.valid ELSE is_valid(out.val)

TriggerIds(g) == {g.nodes[i].id : i \in {j \in 1..Len(g.nodes) : is_trigger(g.nodes[j])}}

TriggerCount(g) == CountSeq(g.nodes, is_trigger)

EndCount(g) == CountSeq(g.nodes, is_end)

\* the ids reached from the ids in S along source -> target edges
RECURSIVE ForwardClosure(_, _)
ForwardClosure(g, S) ==
    LET step == S \cup {g.edges[i].target : i \in {j \in 1..Len(g.edges) : g.edges[j].source \in S}}
    IN  IF step = S THEN S ELSE ForwardClosure(g, step)

\* the node ids that no path from a trigger reaches
UnreachableIds(g) == NodeIdsOf(g) \ ForwardClosure(g, TriggerIds(g))

\* the ids that the result flags as unreachable, in either granularity
FlaggedUnreachable ==
    UNION {Range(out.val.errors[i].ids) :
             i \in {j \in 1..Len(out.val.errors) :
                      out.val.errors[j].kind \in {"UnreachableNode", "UnreachableNodes"}}}

\* the number of positions of the sequence ids that hold id
Occurrences(ids, id) == Cardinality({i \in 1..Len(ids) : ids[i] = id})

NodeIdSeq(g) == MapSeq(g.nodes, LAMBDA n : n.id)

EdgeIdSeq(g) == MapSeq(g.edges, LAMBDA e : e.id)

HasRepeat(ids) == \E i, j \in 1..Len(ids) : i # j /\ ids[i] = ids[j]

\* the number of errors of the result that equal e
ErrorCount(e) == Cardinality({i \in 1..Len(out.val.errors) : out.val.errors[i] = e})

(***************************************************************************)
(* Properties                                                              *)
(***************************************************************************)
\* C1: a validation result is valid exactly when its error list is empty,
\* whatever warnings it carries: the result that validate returns, and the
\* result after any sequence of add_error, add_warning (and merge) calls.
C1_ValidIffNoErrors ==
    /\ IsResultS => (out.val.valid <=> out.val.errors = <<>>)
    /\ IsResultB => (is_valid(out.val) <=> Len(out.val.errors) = 0)

\* C1 witness: a standalone result that got a warning and then an error
C1_Witness ==
    /\ out.op = "add_errorS"
    /\ ~out.val.valid
    /\ Len(out.val.errors) = 1
    /\ Len(out.val.warnings) >= 1

\* C2 as stated: for every graph without a Trigger node, the empty graph
\* included, validate of both implementations reports NoStartNode.
C2_NoTriggerReportsNoStartNode ==
    (IsValidate /\ TriggerCount(wf) = 0) => HasKind(out.val.errors, "NoStartNode")

\* C2 amended: for every graph without a Trigger node the builder validator
\* reports NoStartNode; the standalone validator reports NoStartNode when the
\* graph has at least one node and reports EmptyWorkflow, without
\* NoStartNode, for the graph with no nodes.  Either way the result is invalid.
C2_NoTriggerReported ==
    (IsValidate /\ TriggerCount(wf) = 0) =>
        /\ ~ReportsValid
        /\ IF out.op = "validateS" /\ wf.nodes = <<>>
           THEN /\ HasKind(out.val.errors, "EmptyWorkflow")
                /\ ~HasKind(out.val.errors, "NoStartNode")
           ELSE HasKind(out.val.errors, "NoStartNode")

\* C2 witness: the standalone validator reports NoStartNode for a graph of
\* two nodes, none a trigger
C2_Witness ==
    /\ out.op = "validateS"
    /\ Len(wf.nodes) = 2
    /\ TriggerCount(wf) = 0
    /\ HasKind(out.val.errors, "NoStartNode")

\* C3: generate on a graph without a Trigger node returns the NoStartNode
\* error and no artifacts, in both generator implementations.
C3_GenerateFailsWithNoStartNode ==
    (IsGenerate /\ TriggerCount(wf) = 0) =>
        /\ ~out.val.ok
        /\ out.val.error = "NoStartNode"
        /\ IsNone(out.val.code)

\* C4: for every graph with two or more Trigger nodes, validate reports
\* exactly one MultipleStartNodes, whose ids are as a set the ids of the
\* Trigger nodes, and reports no NoStartNode.
C4_MultipleStartNodes ==
    (IsValidate /\ TriggerCount(wf) >= 2) =>
        /\ Len(OfKind(out.val.errors, "MultipleStartNodes")) = 1
        /\ Range(OfKind(out.val.errors, "MultipleStartNodes")[1].ids) = TriggerIds(wf)
        /\ ~HasKind(out.val.errors, "NoStartNode")

\* C4 witness: the standalone validator on a graph with exactly two triggers
\* and a third node
C4_Witness ==
    /\ out.op = "validateS"
    /\ TriggerCount(wf) = 2
    /\ Len(wf.nodes) = 3
    /\ HasKind(out.val.errors, "MultipleStartNodes")

\* C5: for a graph with a unique trigger T, an End node and a cycle
\* A -> B -> C -> A reached from T, and no other defect, validate is invalid
\* and reports exactly one CycleDetected whose id set is {A, B, C}, for every
\* declaration order; with several cycles at most one CycleDetected is
\* reported.
C5_CycleNodesExact ==
    IsValidate =>
        /\ Len(OfKind(out.val.errors, "CycleDetected")) <= 1
        /\ wf \in OneCycleGraphs =>
              /\ ~ReportsValid
              /\ Len(OfKind(out.val.errors, "CycleDetected")) = 1
              /\ Range(OfKind(out.val.errors, "CycleDetected")[1].ids)
                     = {CycleA, CycleB, CycleC}

\* C6: for every graph with exactly one Trigger node, whatever its other
\* defects, validate flags as unreachable exactly the nodes that no path
\* from the trigger reaches.
C6_UnreachableFlagged ==
    (IsValidate /\ TriggerCount(wf) = 1) => FlaggedUnreachable = UnreachableIds(wf)

\* C7: for every graph with more than one node, validate reports
\* OrphanNode(X) for each node X that no edge names as source or target;
\* for a graph with exactly one node it reports no OrphanNode.
C7_OrphanReported ==
    IsValidate =>
        /\ Len(wf.nodes) > 1 =>
              \A i \in 1..Len(wf.nodes) :
                  (\A k \in 1..Len(wf.edges) :
                       /\ wf.edges[k].source # wf.nodes[i].id
                       /\ wf.edges[k].target # wf.nodes[i].id)
                  => ErrorCount(Err("OrphanNode", <<wf.nodes[i].id>>)) >= 1
        /\ Len(wf.nodes) = 1 => ~HasKind(out.val.errors, "OrphanNode")

\* C8: validate runs every pass and accumulates all findings: a graph with
\* a unique trigger, a node unreachable from it and a further defect (a
\* repeated edge id, or no End node) reports the unreachable node and the
\* error of the further defect.
C8_AllFindingsAccumulated ==
    (IsValidate /\ TriggerCount(wf) = 1 /\ UnreachableIds(wf) # {}) =>
        /\ EndCount(wf) = 0 =>
              /\ HasKind(out.val.errors, "NoEndNode")
              /\ UnreachableIds(wf) \subseteq FlaggedUnreachable
        /\ HasRepeat(EdgeIdSeq(wf)) =>
              /\ HasKind(out.val.errors, "DuplicateEdgeId")
              /\ UnreachableIds(wf) \subseteq FlaggedUnreachable

\* C9: when the graph has no Trigger node or at least two, validate does no
\* reachability analysis: the result has no UnreachableNode and no
\* UnreachableNodes error.
C9_NoReachabilityWithoutUniqueTrigger ==
    (IsValidate /\ TriggerCount(wf) # 1) =>
        /\ ~HasKind(out.val.errors, "UnreachableNode")
        /\ ~HasKind(out.val.errors, "UnreachableNodes")

\* C10: validate never reports as valid a graph in which two nodes share an
\* id or two edges share an id: it reports DuplicateNodeId(id) and
\* DuplicateEdgeId(id) for the repeated ids, the standalone validator once
\* per occurrence after the first.
C10_DuplicatesReported ==
    IsValidate =>
        /\ (HasRepeat(NodeIdSeq(wf)) \/ HasRepeat(EdgeIdSeq(wf))) => ~ReportsValid
        /\ \A id \in Range(NodeIdSeq(wf)) :
              Occurrences(NodeIdSeq(wf), id) > 1 =>
                  /\ ErrorCount(Err("DuplicateNodeId", <<id>>)) >= 1
                  /\ out.op = "validateS" =>
                        ErrorCount(Err("DuplicateNodeId", <<id>>))
                            = Occurrences(NodeIdSeq(wf), id) - 1
        /\ \A id \in Range(EdgeIdSeq(wf)) :
              Occurrences(EdgeIdSeq(wf), id) > 1 =>
                  /\ ErrorCount(Err("DuplicateEdgeId", <<id>>)) >= 1
                  /\ out.op = "validateS" =>
                        ErrorCount(Err("DuplicateEdgeId", <<id>>))
                            = Occurrences(EdgeIdSeq(wf), id) - 1

\* the number of edges of g whose field (source or target) is the id x
EdgesNaming(g, field, x) ==
    Cardinality({k \in 1..Len(g.edges) :
                   (IF field = "source" THEN g.edges[k].source ELSE g.edges[k].target) = x})

\* C11: validate reports one InvalidEdgeSource per edge whose source is the
\* id of no node and one InvalidEdgeTarget per edge whose target is the id of
\* no node: k edges naming the same missing id give k errors, and an id that
\* is the id of a node gives none.
C11_EdgeErrorsPerEdge ==
    IsValidate =>
        \A x \in Range(EndpointIds) :
            /\ ErrorCount(Err("InvalidEdgeSource", <<x>>))
                  = (IF x \in NodeIdsOf(wf) THEN 0 ELSE EdgesNaming(wf, "source", x))
            /\ ErrorCount(Err("InvalidEdgeTarget", <<x>>))
                  = (IF x \in NodeIdsOf(wf) THEN 0 ELSE EdgesNaming(wf, "target", x))

\* C11 witness: the standalone validator on two edges that both name the same
\* missing id as source and as target reports two errors of each kind
C11_Witness ==
    /\ out.op = "validateS"
    /\ Len(wf.nodes) = 2
    /\ Len(wf.edges) = 2
    /\ \E x \in Range(EndpointIds) \ NodeIdsOf(wf) :
          /\ EdgesNaming(wf, "source", x) = 2
          /\ EdgesNaming(wf, "target", x) = 2
          /\ ErrorCount(Err("InvalidEdgeSource", <<x>>)) = 2
          /\ ErrorCount(Err("InvalidEdgeTarget", <<x>>)) = 2

\* C12: the builder validator reports TriggerHasIncomingEdges for every
\* Trigger node that is the target of an edge, so that the graph is not
\* valid, and for no Trigger node without an incoming edge and no node of
\* another type.
C12_TriggerIncomingReported ==
    out.op = "validateB" =>
        /\ \A i \in 1..Len(wf.nodes) :
              ErrorCount(Err("TriggerHasIncomingEdges", <<wf.nodes[i].id>>))
                = (IF is_trigger(wf.nodes[i]) /\ EdgesNaming(wf, "target", wf.nodes[i].id) > 0
                   THEN 1 ELSE 0)
        /\ (\E i \in 1..Len(wf.nodes) :
               is_trigger(wf.nodes[i]) /\ EdgesNaming(wf, "target", wf.nodes[i].id) > 0)
              => ~ReportsValid
        /\ Len(OfKind(out.val.errors, "TriggerHasIncomingEdges"))
              = Cardinality({i \in 1..Len(wf.nodes) :
                               is_trigger(wf.nodes[i])
                               /\ EdgesNaming(wf, "target", wf.nodes[i].id) > 0})

\* C12 witness: a graph whose only trigger has an incoming edge and whose
\* other nodes have incoming edges too
C12_Witness ==
    /\ out.op = "validateB"
    /\ TriggerCount(wf) = 1
    /\ Len(wf.nodes) = 3
    /\ \A i \in 1..Len(wf.nodes) : i <= 2 => EdgesNaming(wf, "target", wf.nodes[i].id) > 0
    /\ is_trigger(wf.nodes[1])
    /\ Len(OfKind(out.val.errors, "TriggerHasIncomingEdges")) = 1

\* C13: validate never panics: for every graph, with edges to missing
\* nodes, self-loops, repeated ids, cycles and config strings of unbalanced
\* or empty braces, it returns a result; the cycle-suffix lookup of the
\* builder and the slice of the standalone extract_variable_reference stay
\* in range.
C13_ValidateNeverPanics ==
    IsValidate => ~out.val.panic

\* C13 witness: the standalone validator returns for a graph that has a
\* cycle and the config string of two opening and two closing braces, whose
\* slice is empty
C13_Witness ==
    /\ out.op = "validateS"
    /\ ~out.val.panic
    /\ HasKind(out.val.errors, "CycleDetected")
    /\ wf.nodes[2].data.config = Some(<<[key |-> <<"k">>,
                                         value |-> JsonString(<<"{", "{", "}", "}">>)]>>)

\* the node has neither an explicit activity name nor a component name
Nameless(n) == IsNone(n.data.activity_name) /\ IsNone(n.data.component_name)

\* the errors of the result that report a missing name of the node id
MissingNameErrors(id) ==
    {i \in 1..Len(out.val.errors) :
        /\ out.val.errors[i].kind \in {"MissingActivityName", "MissingRequiredField"}
        /\ out.val.errors[i].ids = <<id>>}

\* C14: validate reports an error (MissingActivityName or
\* MissingRequiredField), and so an invalid result, for every Activity or
\* Agent node that has neither an explicit activity name nor a component
\* name; a node that has either one gets no such error.
C14_NamelessActivityIsError ==
    IsValidate =>
        \A i \in 1..Len(wf.nodes) :
            wf.nodes[i].node_type \in {"Activity", "Agent"} =>
                IF Nameless(wf.nodes[i])
                THEN MissingNameErrors(wf.nodes[i].id) # {} /\ ~ReportsValid
                ELSE MissingNameErrors(wf.nodes[i].id) = {}

\* the character sequence s contains the character sequence p
Contains(s, p) == \E i \in 1..(Len(s) - Len(p) + 1) : SubSeq(s, i, i + Len(p) - 1) = p

\* the JSON value holds, at some depth, a string with a reference to name
RECURSIVE ValueRefers(_, _)
ValueRefers(value, name) ==
    IF value.t = "string"
    THEN Contains(value.s, CurlyRef(name)) \/ Contains(value.s, DollarRef(name))
    ELSE IF value.t \in {"object", "array"}
    THEN \E i \in 1..Len(value.items) : ValueRefers(value.items[i], name)
    ELSE FALSE

\* some node's config or input map refers to name
Referenced(g, name) ==
    \E i \in 1..Len(g.nodes) :
        \E v \in MapValues(g.nodes[i].data.config) \cup MapValues(g.nodes[i].data.input) :
            ValueRefers(v, name)

\* the number of warnings of the result that equal w
WarningCount(w) == Cardinality({i \in 1..Len(out.val.warnings) : out.val.warnings[i] = w})

\* C15: in the builder validator every declaration of a variable gets one
\* UnusedVariable warning, and never an error, when no config or input map
\* holds, at any depth, a string with a reference to its name between two
\* pairs of braces or after a dollar sign; a variable with such a reference,
\* also inside a longer string, gets none.
C15_UnusedVariableWarned ==
    out.op = "validateB" =>
        /\ ~HasKind(out.val.errors, "UnusedVariable")
        /\ \A name \in VarNames :
              WarningCount(Err("UnusedVariable", <<name>>))
                = (IF Referenced(wf, name) THEN 0
                   ELSE Occurrences(MapSeq(wf.variables, LAMBDA v : v.name), name))

IsCompile == out.op \in {"compileS", "compileB"}

\* the validation result of the running compile request is valid
CompileValid == IF out.op = "compileS" THEN out.validation.valid ELSE is_valid(out.validation)

\* the response of the finished compile request carries every error and
\* every warning of its validation result
CarriesValidation ==
    IF out.op = "compileS"
    THEN out.val.validation = Some(out.validation)
    ELSE /\ \A i \in 1..Len(out.validation.errors) :
              \E k \in 1..Len(out.val.errors) :
                  out.val.errors[k] = convert_validation_error(out.validation.errors[i])
         /\ \A i \in 1..Len(out.validation.warnings) :
              \E k \in 1..Len(out.val.warnings) :
                  out.val.warnings[k] = to_string(out.validation.warnings[i])

\* C16: the compile handler calls generate only after validate and only
\* when the validation result is valid; its response has generated code
\* only for a valid graph; and on every path (invalid graph, successful
\* generation, failed generation) the response carries the whole validation
\* result, every error and every warning.
C16_CompileCarriesValidation ==
    IsCompile =>
        /\ out.calls[1] = "validate"
        /\ (\E i \in 1..Len(out.calls) : out.calls[i] = "generate")
              => (CompileValid /\ out.calls[2] = "generate")
        /\ out.pc = "done" =>
              /\ IsSome(out.val.code) => CompileValid
              /\ CarriesValidation

\* validate of the generator's own compiler reports the request graph valid
ValidatesAsValid ==
    IF out.op = "generateS" THEN validateS(wf).valid ELSE is_valid(validateB(wf))

\* C17: for every graph that validate reports valid, generate does not fail
\* with NoStartNode: the generator finds the trigger of a valid graph.
C17_ValidGraphHasStartNode ==
    (IsGenerate /\ ValidatesAsValid) => out.val.error # "NoStartNode"

\* C17 witness: the builder generator returns code for a valid graph whose
\* trigger is not the first declared node
C17_Witness ==
    /\ out.op = "generateB"
    /\ ValidatesAsValid
    /\ Len(wf.nodes) = 3
    /\ ~is_trigger(wf.nodes[1])
    /\ out.val.ok

\* the node ids of the emitted code blocks, in the order of emission
EmittedIds == MapSeq(out.val.code[1].workflow, LAMBDA b : b.node)

\* the ids of the nodes that are neither Trigger nor End, in declaration order
OtherIds(g) ==
    MapSeq(SelectSeq(g.nodes, LAMBDA n : ~is_trigger(n) /\ ~is_end(n)), LAMBDA n : n.id)

EndIds(g) == {g.nodes[i].id : i \in {j \in 1..Len(g.nodes) : is_end(g.nodes[j])}}

\* C18: generate emits the block of the trigger first, then the blocks of
\* the nodes that are neither Trigger nor End in the order of their
\* declaration, whatever the edges, and the blocks of the End nodes last;
\* also for a graph with a branch and with several End nodes.
C18_DeclarationOrder ==
    (IsGenerate /\ out.val.ok) =>
        /\ Len(EmittedIds) = Len(wf.nodes)
        /\ EmittedIds[1] \in TriggerIds(wf)
        /\ SubSeq(EmittedIds, 2, 1 + Len(OtherIds(wf))) = OtherIds(wf)
        /\ Range(SubSeq(EmittedIds, 2 + Len(OtherIds(wf)), Len(EmittedIds))) = EndIds(wf)

\* the artifacts of a successful generate, without the generation timestamp
WithoutTimestamp(r) == [r.code[1] EXCEPT !.generated_at = ""]

GeneratedTwice == out.op \in {"generateS2", "generateB2"} /\ out.first.ok /\ out.val.ok

\* C19: two calls of generate on the same graph return the same artifacts
\* apart from the generation timestamp; in the builder the proxy names are
\* assigned to the same timeouts, in the same order, in both calls.
C19_GenerateDeterministic ==
    GeneratedTwice => WithoutTimestamp(out.first) = WithoutTimestamp(out.val)

\* the distinct effective timeouts among the Activity and Agent nodes
DistinctTimeouts(g) ==
    {IF g.nodes[i].data.timeout = None THEN <<"1", "m">> ELSE g.nodes[i].data.timeout[1] :
        i \in {j \in 1..Len(g.nodes) : g.nodes[j].node_type \in {"Activity", "Agent"}}}

GeneratedB == out.op \in {"generateB", "generateB2"} /\ out.val.ok

ActivityIndices(g) ==
    {j \in 1..Len(g.nodes) : g.nodes[j].node_type \in {"Activity", "Agent"}}

\* the effective timeout of a node as documented: its own, else the
\* workflow's default from the settings
DocumentedTimeout(g, n) ==
    IF n.data.timeout # None THEN n.data.timeout[1]
    ELSE IF g.settings.timeout # None THEN g.settings.timeout[1]
    ELSE <<"1", "m">>

\* the distinct documented timeouts in the order in which the declaration
\* of the nodes first shows them
FirstSeenTimeouts(g) ==
    LET first == SelectSeq([i \in 1..Len(g.nodes) |-> i],
                           LAMBDA i : /\ i \in ActivityIndices(g)
                                      /\ \A j \in ActivityIndices(g) :
                                            j < i => DocumentedTimeout(g, g.nodes[j])
                                                     # DocumentedTimeout(g, g.nodes[i]))
    IN  [k \in 1..Len(first) |-> DocumentedTimeout(g, g.nodes[first[k]])]

\* C21: the builder names the proxies in first-seen order: the timeout of
\* the first Activity or Agent node gets acts, the next distinct timeout
\* acts_1, and so on.
C21_FirstSeenOrder ==
    (GeneratedB /\ ActivityIndices(wf) # {}) =>
        LET p == out.val.code[1].proxy_declarations
        IN  /\ Len(p) = Len(FirstSeenTimeouts(wf))
            /\ \A k \in 1..Len(p) :
                  /\ p[k].timeout = FirstSeenTimeouts(wf)[k]
                  /\ p[k].var_name = (IF k = 1 THEN <<"acts">> ELSE <<"acts_", k - 1>>)

\* C22: an Activity or Agent node is grouped under its own timeout when it
\* has one and under the workflow's default timeout otherwise, so the
\* proxies carry exactly the documented timeouts of the nodes.
C22_GroupedByEffectiveTimeout ==
    (GeneratedB /\ ActivityIndices(wf) # {}) =>
        {out.val.code[1].proxy_declarations[k].timeout :
            k \in 1..Len(out.val.code[1].proxy_declarations)}
        = {DocumentedTimeout(wf, wf.nodes[j]) : j \in ActivityIndices(wf)}

\* the blocks of the Activity and Agent nodes in the generated body
ActivityBlocks ==
    {k \in 1..Len(out.val.code[1].workflow) :
        out.val.code[1].workflow[k].kind \in {"Activity", "Agent"}}

\* the node of the graph that a block was generated for
NodeOfBlock(b) == CHOOSE n \in Range(wf.nodes) : n.id = b.node

\* C23: the awaited call of each Activity or Agent node goes through the
\* proxy of the node's own timeout group: the proxy declaration named in the
\* call has the node's effective timeout.
C23_CallThroughOwnProxy ==
    GeneratedB =>
        \A k \in ActivityBlocks :
            LET b == out.val.code[1].workflow[k]
                p == out.val.code[1].proxy_declarations
            IN  \E i \in 1..Len(p) :
                    /\ p[i].var_name = b.handle
                    /\ p[i].timeout = DocumentedTimeout(wf, NodeOfBlock(b))

\* C24: generate returns all five artifacts or an error: when a render or
\* the trigger lookup fails, the caller gets the error and no artifact.
C24_AllOrNothing ==
    IsGenerate =>
        \/ /\ out.val.ok
           /\ out.val.code # <<>>
           /\ out.val.code[1].rendered =
                 {"workflow", "activities", "worker", "package_json", "tsconfig"}
        \/ /\ ~out.val.ok
           /\ out.val.error \in {"RenderError", "NoStartNode"}
           /\ out.val.code = <<>>

\* a render of the builder fails on a graph that has a trigger
C24_Witness ==
    /\ out.op = "generateB"
    /\ \E i \in 1..Len(wf.nodes) : wf.nodes[i].node_type = "Trigger"
    /\ ~out.val.ok
    /\ out.val.error = "RenderError"

\* the identifiers that a block of generated code derives from the node id
\* or from the variable name
IdentifiersOf(b) ==
    (IF "code" \in DOMAIN b THEN b.code.idents ELSE {})
    \cup (IF "var_name" \in DOMAIN b THEN {b.var_name} ELSE {})

\* the fixed prefixes of the generated identifiers
IdentifierPrefixes == {"result_", "logContext_", "logMetadata_", "prevValue_", "setResult_"}

IsIdentifier(s) ==
    \A i \in 1..Len(s) :
        \/ s[i] \in Letters \cup Digits \cup {"_"}
        \/ i = 1 /\ s[i] \in IdentifierPrefixes

GeneratedOk == IsGenerate /\ out.val.ok

\* C25: every identifier that generate derives from a node id or a variable
\* name consists of alphanumeric characters and '_' only, in both
\* generators.
C25_IdentifiersSanitized ==
    GeneratedOk =>
        \A k \in 1..Len(out.val.code[1].workflow) :
            \A s \in IdentifiersOf(out.val.code[1].workflow[k]) : IsIdentifier(s)

IsVariableCode == out.op \in {"get_variable_code", "set_variable_code"}

\* C26: the fragment of a GetVariable or SetVariable node is an activity and
\* calls acts.get/set{Service,Project}Variable exactly when the scope is
\* Service or Project, reads or writes state.<name> with no activity call for
\* Workflow scope, and a GetVariable fragment holds the conditional throw
\* exactly when throw_if_missing is true, for every scope.
C26_VariableFragments ==
    IsVariableCode =>
        LET verb == IF out.op = "get_variable_code" THEN "get" ELSE "set"
            code == out.val.code
        IN  /\ out.val.is_activity <=> out.config.scope \in {"Service", "Project"}
            /\ out.config.scope = "Service" =>
                  code.calls = <<<<"acts", verb \o "ServiceVariable">>>> /\ code.state = <<>>
            /\ out.config.scope = "Project" =>
                  code.calls = <<<<"acts", verb \o "ProjectVariable">>>> /\ code.state = <<>>
            /\ out.config.scope = "Workflow" =>
                  code.calls = <<>> /\ Len(code.state) = 1
            /\ out.op = "get_variable_code" =>
                  (code.throw_code # <<>> <=> out.config.throw_if_missing)

\* a GetVariable fragment of Workflow scope with the conditional throw
C26_Witness ==
    /\ out.op = "get_variable_code"
    /\ out.config.scope = "Workflow"
    /\ out.config.throw_if_missing
    /\ ~out.val.is_activity
    /\ out.val.code.throw_code # <<>>

\* the number of blocks that generate emitted for the node id; every node
\* type of the request graphs lowers to a non-empty block, so a block is
\* emitted each time a node is dispatched to its lowering rule
DispatchCount(id) ==
    Cardinality({k \in 1..Len(out.val.code[1].workflow) :
                    out.val.code[1].workflow[k].node = id})

DistinctNodeIds(g) ==
    \A i, j \in 1..Len(g.nodes) : i # j => g.nodes[i].id # g.nodes[j].id

\* C27: for a graph with pairwise distinct node ids that validate reports
\* valid, generate dispatches every node exactly once: none is dropped, also
\* with two End nodes, and none is emitted twice, also where two paths join.
C27_EveryNodeOnce ==
    (GeneratedOk /\ ValidatesAsValid /\ DistinctNodeIds(wf)) =>
        \A i \in 1..Len(wf.nodes) : DispatchCount(wf.nodes[i].id) = 1

\* the edges of the graph whose target is a Trigger node
TriggerIncoming(g) == {k \in 1..Len(g.edges) : g.edges[k].target \in TriggerIds(g)}

\* C28: the standalone validator reports every graph with an edge into a
\* Trigger node invalid, whatever the source of the edge: a missing node, an
\* unreachable node, a reachable node or the trigger itself.
C28_TriggerIncomingInvalidS ==
    (out.op = "validateS" /\ TriggerIncoming(wf) # {}) =>
        /\ ~out.val.valid
        /\ out.val.errors # <<>>

\* the edge into the trigger closes a cycle and the cycle is the only error
C28_Witness ==
    /\ out.op = "validateS"
    /\ TriggerCount(wf) = 1
    /\ \E k \in TriggerIncoming(wf) :
          /\ wf.edges[k].source \notin TriggerIds(wf)
          /\ wf.edges[k].source \in ForwardClosure(wf, TriggerIds(wf))
    /\ Len(out.val.errors) = 1
    /\ out.val.errors[1].kind = "CycleDetected"

IsTraverse == out.op = "traverse"

NoRepeat(s) == \A i, j \in 1..Len(s) : i # j => s[i] # s[j]

\* C29: the reachability search and the cycle DFS of both validators and
\* the body traversal of the builder generator expand each node id at most
\* once and come to an end, also on graphs with cycles, self-loops, parallel
\* edges and edges to missing nodes.
C29_TraversalsTerminate ==
    /\ [](IsTraverse => NoRepeat(out.expanded))
    /\ (IsTraverse ~> (IsTraverse /\ out.done))

\* the body traversal has ended on a graph with a cycle through the trigger
C29_Witness ==
    /\ IsTraverse
    /\ out.alg = "generate_workflow_body"
    /\ out.done
    /\ \E k, l \in 1..Len(wf.edges) :
          /\ wf.edges[k].source = <<"a">> /\ wf.edges[k].target = <<"b">>
          /\ wf.edges[l].source = <<"b">> /\ wf.edges[l].target = <<"a">>
    /\ out.expanded = <<<<"a">>, <<"b">>>>

IsRegistry == out.op = "registry"

\* the closure has run at most once, exactly once when the cell is complete,
\* and every caller that holds the registry sees the five templates
RegistryInitialisedOnce ==
    IsRegistry =>
        /\ out.inits <= 1
        /\ out.once = "complete" => out.inits = 1
        /\ \A c \in Callers :
              out.pc[c] \in {"have", "rendered", "template not found"} =>
                  /\ out.view[c] = <<"workflow", "activities", "worker",
                                     "package_json", "tsconfig">>
                  /\ out.pc[c] # "template not found"

\* a complete registry is never changed
RegistryStable == (IsRegistry /\ out.once = "complete") => out'.registry = out.registry

\* C30: under every interleaving of concurrent generate calls the template
\* registry behind get_handlebars is initialised exactly once, every caller
\* sees it only with all five templates registered, and no call changes it
\* afterwards.
C30_RegistryInitialisedOnce ==
    /\ [](RegistryInitialisedOnce)
    /\ [][RegistryStable]_vars

\* one caller has rendered from the registry that another caller
\* initialised while a third was blocked on the initialisation
C30_Witness ==
    /\ IsRegistry
    /\ out.inits = 1
    /\ out.pc["c1"] = "rendered"
    /\ out.local["c2"] = <<"workflow", "activities", "worker", "package_json", "tsconfig">>
    /\ out.pc["c3"] = "blocked"


====
